---------------------------- MODULE Spec2Model ----------------------------
(***************************************************************************)
(* Model of job_search_agent v3 (src/job_search_agent_v_3.py): the daily   *)
(* pipeline Fetch -> Normalize -> Dedup -> Translate -> Enrich -> Rank ->  *)
(* Select -> Persist, the seen-store, the ATS-lite status store, the       *)
(* preferences document and the daily snapshot files.                      *)
(*                                                                         *)
(* Conventions of the encoding                                             *)
(*  - A text (title, company, location, description) is the sequence of    *)
(*    its words, a word being a maximal run of \w characters; what lies    *)
(*    between two words is a separator.  re.search(r"\bK\b", text, I) is   *)
(*    then "some word equals K up to case", and re.search("K", text, I)    *)
(*    is "some word contains K up to case".  The words "a_ring",           *)
(*    "o_slash", "ae_lig" stand for the one-letter words written with the  *)
(*    Norwegian letters, and "sprak" for the stub's word containing one.   *)
(*  - A calendar date is its day number; strftime("%Y-%m-%d") strings of   *)
(*    four-digit years compare as their day numbers do.                    *)
(*  - A wall-clock instant is [day, hour].                                 *)
(*  - Python's None / a missing file / a missing key is the empty          *)
(*    sequence << >>, a present value v is << v >>, where the two must be  *)
(*    told apart; for plain strings None is the string "None".             *)
(*  - Scores are in tenths (3.0 is 30, 0.8 is 8).  Every partial sum the   *)
(*    code forms before the recency bonus is a multiple of 0.5, exact in   *)
(*    binary floating point, and 0.8 is added last, so float order and     *)
(*    equality of scores are those of the tenths.                          *)
(***************************************************************************)
EXTENDS Integers, Sequences, FiniteSets, TLC

VARIABLES
    clock,      \* datetime.now(): [day, hour]
    cfg,        \* module configuration: GREENHOUSE_BOARDS, LEVER_COMPANIES
    prefsFile,  \* ./state/prefs.json: << >> or << prefs >>
    seenFile,   \* ./state/seen.json: << >> or << jobs mapping >>
    atsFile,    \* ./state/ats.json: << >> or << records mapping >>
    logDir,     \* ./logs: file name <<day, ext>> -> content
    pc,         \* position of the running command
    args,       \* the run command's arguments: [days, top]
    prefs,      \* prefs loaded by cmd_run
    raws,       \* run_pipeline: raws
    jobs,       \* run_pipeline: jobs
    ranked,     \* run_pipeline: ranked
    final,      \* run_pipeline: final
    logs,       \* run_pipeline: logs
    out,        \* what the last command reported on the console
    nCmds,      \* number of commands started
    http        \* the transport calls of the running command: see HttpIdle

vars == <<clock, cfg, prefsFile, seenFile, atsFile, logDir, pc, args, prefs,
          raws, jobs, ranked, final, logs, out, nCmds, http>>

-----------------------------------------------------------------------------
(* Bounds of the model *)

MaxCmds == 3        \* commands (run, mark, list, prefs) per behaviour
MaxChunk == 2       \* postings on one fetched FINN page
MaxDays == 1        \* calendar days the clock may advance

FirstDay == 100     \* day number of the first day of a behaviour

-----------------------------------------------------------------------------
(* Generic helpers *)

Range(s) == {s[i] : i \in 1..Len(s)}

Min(a, b) == IF a <= b THEN a ELSE b

None == << >>

Some(v) == << v >>

\* dict.get(key) on a mapping kept as a TLA+ function
Has(m, k) == k \in DOMAIN m

EmptyMap == << >>

RECURSIVE SeqsUpTo(_, _)
\* all sequences over S of length 0..n
SeqsUpTo(S, n) ==
    IF n = 0 THEN {<< >>}
    ELSE LET shorter == SeqsUpTo(S, n - 1)
         IN  shorter \cup {Append(s, x) : s \in {t \in shorter : Len(t) = n - 1}, x \in S}

-----------------------------------------------------------------------------
(* Text: lower-casing and substring search over the model's vocabulary *)

LowerTable ==
     "Senior" :> "senior" @@ "Product" :> "product" @@ "Manager" :> "manager" @@ "Owner" :> "owner" @@
     "Engineer" :> "engineer" @@ "Produktleder" :> "produktleder" @@ "for" :> "for" @@ "adresse" :> "adresse" @@
     "og" :> "og" @@ "bostedsopplysninger" :> "bostedsopplysninger" @@ "Lead" :> "lead" @@ "B2B" :> "b2b" @@
     "SaaS" :> "saas" @@ "products" :> "products" @@ "with" :> "with" @@ "GenAI" :> "genai" @@
     "features" :> "features" @@ "English" :> "english" @@ "work" :> "work" @@ "environment" :> "environment" @@
     "Forvalte" :> "forvalte" @@ "kjerne" :> "kjerne" @@ "data" :> "data" @@ "Norsk" :> "norsk" @@
     "sprak" :> "sprak" @@ "kreves" :> "kreves" @@ "Norwegian" :> "norwegian" @@ "required" :> "required" @@
     "SQL" :> "sql" @@ "english" :> "english" @@ "Norwegians" :> "norwegians" @@ "preferred" :> "preferred" @@
     "Acme" :> "acme" @@ "Skatteetaten" :> "skatteetaten" @@ "Cognite" :> "cognite" @@ "gelato" :> "gelato" @@
     "cognite" :> "cognite" @@ "AUTO" :> "auto" @@ "TRANSLATED" :> "translated" @@ "from" :> "from" @@
     "no" :> "no" @@ "en" :> "en" @@ "LLM" :> "llm" @@ "analytics" :> "analytics" @@
     "roadmap" :> "roadmap" @@ "Oslo" :> "oslo" @@ "NO" :> "no" @@ "Lysaker" :> "lysaker" @@
     "Bergen" :> "bergen" @@ "Municipal" :> "municipal" @@ "Agency" :> "agency" @@ "product" :> "product" @@
     "manager" :> "manager" @@ "owner" :> "owner" @@ "senior" :> "senior" @@ "Norge" :> "norge" @@
     "a_ring" :> "a_ring" @@ "o_slash" :> "o_slash" @@ "ae_lig" :> "ae_lig" @@ "Directorate" :> "directorate"

\* str.lower() of one word
Lower(w) == LowerTable[w]

\* <<m, w>>: the lower-cased word w contains the lower-case marker m
SubstringPairs ==
    {<<"norwegian", "Norwegian">>, <<"norwegian", "Norwegians">>,
     <<"english", "English">>, <<"english", "english">>,
     <<"skatteetaten", "Skatteetaten">>, <<"municipal", "Municipal">>,
     <<"directorate", "Directorate">>, <<"agency", "Agency">>,
     <<"oslo", "Oslo">>, <<"lysaker", "Lysaker">>}

\* re.search(rf"\b{k}\b", text, re.IGNORECASE) for a one-word k
WordSearch(k, text) == \E i \in 1..Len(text) : Lower(text[i]) = Lower(k)

\* re.search(rf"\b{phrase}\b", text, re.IGNORECASE) for a phrase of words
\* separated by single spaces
PhraseSearch(phrase, text) ==
    \E i \in 0..(Len(text) - Len(phrase)) :
        \A k \in 1..Len(phrase) : Lower(text[i + k]) = Lower(phrase[k])

\* re.search(k, text, re.IGNORECASE) for a one-word k: no word boundaries
SubstringSearch(k, text) ==
    \E i \in 1..Len(text) : <<Lower(k), text[i]>> \in SubstringPairs

-----------------------------------------------------------------------------
(* hashlib.sha256(s.encode("utf-8")).hexdigest() on the strings the model  *)
(* hashes; the values are the real digests.                                *)

Sha256Table ==
     "linkedin:lnk-001" :> "f93817913f28fc7d1210814598176d47d13b8b3b2877236d880957b66a8ae73e" @@
     "linkedin:lnk-002" :> "a3789ac32a83e3455f3064af7a2a4abda80453311ce908e82116e6feb03951a1" @@
     "greenhouse:4001" :> "86db378d07617a4c2292367f4b9c6a94dbf8ec674673c31ea043ae71d6e054b4" @@
     "lever:4001" :> "0d9b66ee0dbe199ec2fd2f849bcd5ac17be9702711356830699a65d84d3d8042" @@
     "finn:54b0f54ea52c" :> "e3c9f91a3b5814f303bb8c977bd2a71063d6c47077c34fca0b49ae2b4424fe68" @@
     "finn:b84fe46d765c" :> "e80355b22966eae53d81aaabe7b04b07350c403c14f6179b1aa7374deb1ee6ab" @@
     "finn:eac31794f29d" :> "63130af8ce205e3246b30c5da5eeda78a7e766c8f71ab3982749cd90c1e4cba4" @@
     "lnk-001" :> "a2796b96753b6e801937ae8d1e3d438f24e90604a5d0ae09ba3c3b69bbe58730" @@
     "lnk-002" :> "a61c5c8f76be9e0bb3eab6e3123c94550d278dd36f9a166e05199bd6f19a67a5" @@
     "4001" :> "b0efc797ea75795a4fc4d408463c70b8900e59baf58a91b6fa9761ec77e1681c" @@
     "54b0f54ea52c" :> "9a1068807c5fd59ecf43b2a3ee6e17e42f6760ec645c036c38312e6ba3a5aa18" @@
     "b84fe46d765c" :> "c45315fdc8874ac2f31f946c6588a652f8dfbe1134d17f132d836d5bdfaa50e9" @@
     "eac31794f29d" :> "00954c7a06aa9f3bdb6e509b4c34885dc6a59ce568d9b17920335334060231d4" @@
     "https://www.finn.no/job/1" :> "54b0f54ea52cbc1c9ba9ef2c42f8768dbc2e3b4dfd43666eb73ff1f08b484b0c" @@
     "https://www.finn.no/job/2" :> "b84fe46d765c6f19b9ec6a1b04fa6e0a8bdf0769b0e601f44bb70457ca3a1448" @@
     "https://www.finn.no/job/3" :> "eac31794f29d181a36f5484f1a6ec01cf50099e1ca1875d014f335703321fbbd" @@
     "https://boards.greenhouse.io/gelato/jobs/4001" :> "e2420c302c02a50b5b24fcd6c632505550d65eea17e902b80b008108d749a3ec" @@
     "https://jobs.lever.co/cognite/4001" :> "329e01061516cf96a431eb6b6b276cc9f8c6b4cbdeaa96f1bbd4e2748bf348cd" @@
     "https://example.com/cognite-spm" :> "602493a9de79c2a96353d3c3cad110bb0400f31d2314bffa724a3ecbb2d60e18" @@
     "https://example.com/skatteetaten-pl" :> "67bdfab90bf69c31c1f6b95d8a248a26f2150423bfe93d4457041cedefc833ad"

sha256(s) == Sha256Table[s]

\* digest[:12] for the digests the FINN parser truncates
Prefix12Table ==
     "54b0f54ea52cbc1c9ba9ef2c42f8768dbc2e3b4dfd43666eb73ff1f08b484b0c" :> "54b0f54ea52c" @@
     "b84fe46d765c6f19b9ec6a1b04fa6e0a8bdf0769b0e601f44bb70457ca3a1448" :> "b84fe46d765c" @@
     "eac31794f29d181a36f5484f1a6ec01cf50099e1ca1875d014f335703321fbbd" :> "eac31794f29d"

-----------------------------------------------------------------------------
(* Config / defaults *)

DEFAULT_CITY_WHITELIST == <<"Oslo", "Lysaker">>

DEFAULT_SKIP_COMPANIES == << <<"Skatteetaten">> >>

DEFAULT_PRIORITY_COMPANIES == << >>

QUIET_AFTER_HOUR == 11

KeepDays == 7

-----------------------------------------------------------------------------
(* Data model *)

\* A raw post_date string: an ISO date of day number d, or unparsable text
IsoDate(d) == [iso |-> TRUE, day |-> d]

BadDate == [iso |-> FALSE, day |-> 0]

\* RawJob; salary_raw and employment_type are never read by the pipeline
RawJob(source, source_job_id, title, company, location, post_date, url, description_raw, lang_guess, seniority_hint, source_meta) ==
    [source |-> source, source_job_id |-> source_job_id, title |-> title,
     company |-> company, location |-> location, post_date |-> post_date,
     url |-> url, description_raw |-> description_raw,
     lang_guess |-> lang_guess, seniority_hint |-> seniority_hint,
     source_meta |-> source_meta]

-----------------------------------------------------------------------------
(* Stage 2: Normalize *)

\* guess_lang: a Norwegian letter standing alone, or Norsk / Norge, as a word
guess_lang(text) ==
    IF \E k \in {"a_ring", "o_slash", "ae_lig", "Norsk", "Norge"} : WordSearch(k, text)
    THEN "no" ELSE "en"

\* (datetime.now() - dt).days with dt the midnight of day d: timedelta.days
\* floors, as \div does
AgeDays(now, d) == ((now.day * 24 + now.hour) - d * 24) \div 24

\* variants of the identity: the digest of the url, and of the id without its source
job_id_by_url(raw) == sha256(raw.url)

job_id_without_source(raw) == sha256(raw.source_job_id)

job_id_of(raw) == sha256(raw.source \o ":" \o raw.source_job_id)

normalize_job(raw, now) ==
    LET parsed == raw.post_date.iso
        dtDay  == IF parsed THEN raw.post_date.day ELSE now.day
        age    == IF parsed THEN AgeDays(now, raw.post_date.day) ELSE 0
        lang   == IF raw.lang_guess \notin {"None", ""} THEN raw.lang_guess
                  ELSE guess_lang(raw.description_raw)
    IN  [job_id |-> job_id_of(raw),
         title |-> raw.title,
         company |-> raw.company,
         location |-> raw.location,
         post_date |-> dtDay,
         age_days |-> age,
         url |-> raw.url,
         description_raw |-> raw.description_raw,
         description_lang |-> lang,
         needs_translation |-> (lang # "en"),
         description_en |-> None,
         signals |-> [keywords |-> << >>, language_req |-> << >>,
                      company_type |-> "None", english_ok |-> "None"],
         seniority |-> raw.seniority_hint,
         source |-> raw.source,
         source_meta |-> raw.source_meta @@ [translation_confidence |-> None]]

normalize_all(rs, now) == [i \in 1..Len(rs) |-> normalize_job(rs[i], now)]

-----------------------------------------------------------------------------
(* Stage 3: Dedup *)

RECURSIVE dedup_loop(_, _, _)
\* the for loop of stage_dedup: js the jobs still to visit
dedup_loop(js, seen, unique) ==
    IF js = << >> THEN unique
    ELSE IF Head(js).job_id \in seen
         THEN dedup_loop(Tail(js), seen, unique)
         ELSE dedup_loop(Tail(js), seen \cup {Head(js).job_id}, Append(unique, Head(js)))

\* variant: the last job of every job_id is the one kept
dedup_last_wins(js) ==
    LET last == {i \in 1..Len(js) : \A k \in (i + 1)..Len(js) : js[k].job_id # js[i].job_id}
    IN  [p \in 1..Cardinality(last) |->
            js[CHOOSE i \in last : Cardinality({k \in last : k <= i}) = p]]

\* variant: unique.insert(0, j) in place of unique.append(j)
dedup_prepend(js) ==
    LET u == dedup_loop(js, {}, << >>)
    IN  [i \in 1..Len(u) |-> u[Len(u) + 1 - i]]

dedup(js) == dedup_loop(js, {}, << >>)

-----------------------------------------------------------------------------
(* Stage 4: Translate *)

\* translate_to_en: the text and the confidence in tenths (1.0 is 10)
translate_to_en(text, source_lang) ==
    IF source_lang = "en" THEN <<text, 10>>
    ELSE <<(<<"AUTO", "TRANSLATED", "from", source_lang>> \o text), 6>>

KEYWORDS == <<"GenAI", "LLM", "SaaS", "B2B", "SQL", "analytics", "roadmap", "Norwegian", "English">>

\* description_en or description_raw: None and "" are both falsy
effective_text(job) ==
    IF job.description_en # None /\ job.description_en[1] # << >>
    THEN job.description_en[1] ELSE job.description_raw

\* extract_signals: keywords is replaced, language_req is appended to
extract_signals(job) ==
    LET text == effective_text(job)
        keys == SelectSeq(KEYWORDS, LAMBDA k : WordSearch(k, text))
        lr1  == IF SubstringSearch("Norwegian", text)
                THEN Append(job.signals.language_req, "Norwegian")
                ELSE job.signals.language_req
        lr2  == IF SubstringSearch("English", text) THEN Append(lr1, "English") ELSE lr1
    IN  [job EXCEPT !.signals.keywords = keys, !.signals.language_req = lr2]

\* the body of stage_translate's loop for one job
\* variant: the title goes through translate_to_en with the description
translate_job_and_title(j) ==
    LET tx == translate_to_en(j.description_raw, j.description_lang)
        j1 == IF j.needs_translation
              THEN [j EXCEPT !.description_en = Some(tx[1]),
                             !.title = translate_to_en(j.title, j.description_lang)[1],
                             !.source_meta.translation_confidence = Some(tx[2])]
              ELSE [j EXCEPT !.description_en = Some(j.description_raw),
                             !.source_meta.translation_confidence = Some(10)]
    IN  extract_signals(j1)

translate_job(j) ==
    LET tx == translate_to_en(j.description_raw, j.description_lang)
        j1 == IF j.needs_translation
              THEN [j EXCEPT !.description_en = Some(tx[1]),
                             !.source_meta.translation_confidence = Some(tx[2])]
              ELSE [j EXCEPT !.description_en = Some(j.description_raw),
                             !.source_meta.translation_confidence = Some(10)]
    IN  extract_signals(j1)

translate_all(js) == [i \in 1..Len(js) |-> translate_job(js[i])]

-----------------------------------------------------------------------------
(* Stage 5: Enrich *)

classify_company_type(name) ==
    IF \E k \in {"Skatteetaten", "Municipal", "Directorate", "Agency"} : SubstringSearch(k, name)
    THEN "government" ELSE "private"

\* infer_english_ok: "False", "True" or "None"
infer_english_ok(job) ==
    IF "Norwegian" \in Range(job.signals.language_req) THEN "False"
    ELSE IF "English" \in Range(job.signals.language_req) THEN "True"
    ELSE "None"

enrich_job(j) ==
    [j EXCEPT !.signals.company_type = classify_company_type(j.company),
              !.signals.english_ok = infer_english_ok(j)]

enrich_all(js) == [i \in 1..Len(js) |-> enrich_job(js[i])]

-----------------------------------------------------------------------------
(* Stage 6: Rank *)

TITLE_PHRASES == << <<"Product", "Manager">>, <<"Senior", "Product", "Manager">>, <<"Product", "Owner">> >>

match_any(text, arr) == \E i \in 1..Len(arr) : PhraseSearch(arr[i], text)

\* j.seniority and re.search(r"Senior|Lead", j.seniority, re.IGNORECASE), on
\* the one-word hints the model carries; "None" is None
seniority_matches(seniority) ==
    /\ seniority \notin {"None", ""}
    /\ Lower(seniority) \in {"senior", "lead"}

\* one weighted factor of score_job: adds w and the reason when cond holds
Factor(acc, cond, w, reason) ==
    IF cond THEN [score |-> acc.score + w, reasons |-> Append(acc.reasons, reason)]
    ELSE acc

\* max(0.0, score)
\* variant: the score as summed, without max(0.0, score)
score_unfloored(score) == score

score_floor(score) == IF score < 0 THEN 0 ELSE score

\* reasons[:3]
reasons_cap(reasons) == SubSeq(reasons, 1, Min(3, Len(reasons)))

\* score_job: <<score in tenths, reasons>>
score_job(j, skip_companies, priority_companies) ==
    LET kws == Range(j.signals.keywords)
        a0 == [score |-> 0, reasons |-> << >>]
        a1 == Factor(a0, match_any(j.title, TITLE_PHRASES), 30, "Title match")
        a2 == Factor(a1, {"B2B", "SaaS"} \cap kws # {}, 25, "B2B/SaaS")
        a3 == Factor(a2, j.signals.english_ok = "True", 15, "English OK")
        a4 == Factor(a3, seniority_matches(j.seniority), 10, "Sr/Lead")
        a5 == Factor(a4, {"LLM", "GenAI", "SQL", "analytics", "roadmap"} \cap kws # {}, 10, "Key skills")
        a6 == Factor(a5, j.company \in Range(skip_companies), -100, "SKIP company")
        a7 == Factor(a6, j.company \in Range(priority_companies), 5, "Priority company")
        a8 == IF j.age_days <= 3 THEN Factor(a7, TRUE, 15, "Fresh")
              ELSE Factor(a7, j.age_days <= 7, 8, "Recent")
    IN  <<score_floor(a8.score), reasons_cap(a8.reasons)>>

\* variant: the sort key is the score alone
KeyGreater_score_only(a, b) == a.score > b.score

\* the sort key (x[1], x[0].post_date) compared as Python compares tuples
KeyGreater(a, b) ==
    \/ a.score > b.score
    \/ a.score = b.score /\ a.job.post_date > b.job.post_date

RECURSIVE insert_desc(_, _)
\* x put behind every element whose key is not smaller than its own
insert_desc(sorted, x) ==
    IF sorted = << >> THEN <<x>>
    ELSE IF KeyGreater(x, Head(sorted)) THEN <<x>> \o sorted
         ELSE <<Head(sorted)>> \o insert_desc(Tail(sorted), x)

RECURSIVE sort_desc_loop(_, _)
sort_desc_loop(todo, sorted) ==
    IF todo = << >> THEN sorted
    ELSE sort_desc_loop(Tail(todo), insert_desc(sorted, Head(todo)))

\* list.sort(key=..., reverse=True): stable, equal keys keep their order
\* variant: sorted ascending and then reversed, which reverses ties
sort_desc_ties_reversed(scored) ==
    sort_desc_loop([i \in 1..Len(scored) |-> scored[Len(scored) + 1 - i]], << >>)

sort_desc(scored) == sort_desc_loop(scored, << >>)

ranked_entry(x) ==
    [job_id |-> x.job.job_id, company |-> x.job.company, title |-> x.job.title,
     location |-> x.job.location, post_date |-> x.job.post_date, url |-> x.job.url,
     score |-> x.score, reasons |-> x.reasons,
     english_ok |-> x.job.signals.english_ok, keywords |-> x.job.signals.keywords,
     age_days |-> x.job.age_days, source |-> x.job.source]

rank(js, p) ==
    LET scored == [i \in 1..Len(js) |->
                     LET sr == score_job(js[i], p.SKIP_COMPANIES, p.PRIORITY_COMPANIES)
                     IN  [job |-> js[i], score |-> sr[1], reasons |-> sr[2]]]
        sorted == sort_desc(scored)
    IN  [i \in 1..Len(sorted) |-> ranked_entry(sorted[i])]

-----------------------------------------------------------------------------
(* Stage 7: Select *)

\* ranked[:top_n] for top_n >= 0
select(rk, top_n) == SubSeq(rk, 1, Min(top_n, Len(rk)))

-----------------------------------------------------------------------------
(* Seen-store, ATS, CSV export *)

RECURSIVE update_seen_loop(_, _, _, _)
\* the for loop of update_seen_store: <<seen["jobs"], is_new_map>>
update_seen_loop(todo, seenJobs, is_new_map, today) ==
    IF todo = << >> THEN <<seenJobs, is_new_map>>
    ELSE LET j   == Head(todo)
             jid == j.job_id
         IN  IF ~Has(seenJobs, jid)
             THEN update_seen_loop(Tail(todo),
                      (jid :> [first_seen |-> today, last_seen |-> today, url |-> j.url,
                               company |-> j.company, title |-> j.title]) @@ seenJobs,
                      (jid :> TRUE) @@ is_new_map, today)
             ELSE update_seen_loop(Tail(todo),
                      [seenJobs EXCEPT ![jid].last_seen = today],
                      (jid :> FALSE) @@ is_new_map, today)

\* a file that open(path, "w") has emptied and json.dump has not finished:
\* the beginning of a document, or nothing
Partial == <<"{", "...">>

\* read_json: the default when the file is missing or json.load raises
read_json(file, default) == IF file = None \/ file = Partial THEN default ELSE file[1]

\* the points of write_json at which the process may stop
STOPS == {"none", "before open", "during dump"}

\* write_json: the file, when the process stops at the given point or not
\* at all
write_json(file, obj, stopped) ==
    CASE stopped = "before open" -> file
      [] stopped = "during dump" -> Partial
      [] OTHER -> Some(obj)

\* read_json(SEEN_PATH, {}) followed by the "jobs" default
seen_jobs_of(file) == read_json(file, EmptyMap)

\* variant: every ranked job gets a fresh record
update_seen_store_refresh(all_ranked, seenJobs, today) ==
    LET ids == {all_ranked[i].job_id : i \in 1..Len(all_ranked)}
        entry(jid) == all_ranked[CHOOSE i \in 1..Len(all_ranked) : all_ranked[i].job_id = jid]
    IN  <<[jid \in ids \cup DOMAIN seenJobs |->
              IF jid \in ids
              THEN [first_seen |-> today, last_seen |-> today, url |-> entry(jid).url,
                    company |-> entry(jid).company, title |-> entry(jid).title]
              ELSE seenJobs[jid]],
          [jid \in ids |-> ~Has(seenJobs, jid)]>>

\* variant: a job is new when its record says it was first seen today
update_seen_store_by_date(all_ranked, seenJobs, today) ==
    LET r == update_seen_loop(all_ranked, seenJobs, EmptyMap, today)
    IN  <<r[1], [jid \in DOMAIN r[2] |-> r[1][jid].first_seen = today]>>

update_seen_store(all_ranked, seenJobs, today) ==
    update_seen_loop(all_ranked, seenJobs, EmptyMap, today)

\* bool(is_new_map.get(job_id, False))
is_new_of(is_new_map, jid) == IF Has(is_new_map, jid) THEN is_new_map[jid] ELSE FALSE

tag_is_new(fin, is_new_map) ==
    [i \in 1..Len(fin) |-> fin[i] @@ [is_new |-> is_new_of(is_new_map, fin[i].job_id)]]

\* ensure_ats: read_json(ATS_PATH, {}) with the "records" default
ensure_ats(file) == read_json(file, EmptyMap)

STATUSES == {"discovered", "interested", "applied", "interviewing", "rejected", "offer"}

\* variant: a selected job's record is set back to "discovered"
ats_touch_reset(records, job, now) ==
    IF Has(records, job.job_id)
    THEN [records EXCEPT ![job.job_id].status = "discovered"]
    ELSE (job.job_id :> [company |-> job.company, title |-> job.title, url |-> job.url,
                         status |-> "discovered", notes |-> << >>,
                         history |-> <<[date |-> now, action |-> "create",
                                        status |-> "discovered"]>>]) @@ records

ats_touch(records, job, now) ==
    IF Has(records, job.job_id) THEN records
    ELSE (job.job_id :> [company |-> job.company, title |-> job.title, url |-> job.url,
                         status |-> "discovered", notes |-> << >>,
                         history |-> <<[date |-> now, action |-> "create",
                                        status |-> "discovered"]>>]) @@ records

RECURSIVE ats_touch_all(_, _, _)
ats_touch_all(records, fin, now) ==
    IF fin = << >> THEN records
    ELSE ats_touch_all(ats_touch(records, Head(fin), now), Tail(fin), now)

\* a text of notes is the sequence of the notes and of the "\n" between them
NEWLINE == "\n"

\* rec["notes"] + ("\n" if rec["notes"] else "") + note, for a non-empty note
notes_with(notes, note) ==
    IF note = "" THEN notes
    ELSE notes \o (IF notes # << >> THEN <<NEWLINE>> ELSE << >>) \o <<note>>

\* variant: the record is created when the job_id has none
mark_or_create(records, job_id, status, note, now) ==
    LET old == IF Has(records, job_id) THEN records[job_id]
               ELSE [company |-> << >>, title |-> << >>, url |-> "", status |-> "discovered",
                     notes |-> << >>, history |-> << >>]
        new == [old EXCEPT !.status = status, !.notes = notes_with(old.notes, note),
                           !.history = Append(old.history,
                                              [date |-> now, action |-> "status_change",
                                               from |-> old.status, to |-> status])]
    IN  [found |-> TRUE, records |-> (job_id :> new) @@ records]

\* variant: the history is started anew by each status change
mark_history_replaced(records, job_id, status, note, now) ==
    IF ~Has(records, job_id) THEN [found |-> FALSE, records |-> records]
    ELSE LET rec   == records[job_id]
             entry == [date |-> now, action |-> "status_change",
                       from |-> rec.status, to |-> status]
         IN  [found |-> TRUE,
              records |-> [records EXCEPT ![job_id] =
                              [rec EXCEPT !.status = status,
                                          !.notes = notes_with(rec.notes, note),
                                          !.history = <<entry>>]]]

\* variant: a note given replaces the notes
mark_notes_overwritten(records, job_id, status, note, now) ==
    IF ~Has(records, job_id) THEN [found |-> FALSE, records |-> records]
    ELSE LET rec   == records[job_id]
             entry == [date |-> now, action |-> "status_change",
                       from |-> rec.status, to |-> status]
         IN  [found |-> TRUE,
              records |-> [records EXCEPT ![job_id] =
                              [rec EXCEPT !.status = status,
                                          !.notes = IF note = "" THEN rec.notes ELSE <<note>>,
                                          !.history = Append(rec.history, entry)]]]

\* variant: the status is read for the history after it has been set
mark_from_read_late(records, job_id, status, note, now) ==
    IF ~Has(records, job_id) THEN [found |-> FALSE, records |-> records]
    ELSE LET rec   == records[job_id]
             entry == [date |-> now, action |-> "status_change",
                       from |-> status, to |-> status]
         IN  [found |-> TRUE,
              records |-> [records EXCEPT ![job_id] =
                              [rec EXCEPT !.status = status,
                                          !.notes = notes_with(rec.notes, note),
                                          !.history = Append(rec.history, entry)]]]

\* the body of cmd_mark on the records of the status store: whether the
\* job_id has a record, and the records to write
mark(records, job_id, status, note, now) ==
    IF ~Has(records, job_id) THEN [found |-> FALSE, records |-> records]
    ELSE LET rec   == records[job_id]
             entry == [date |-> now, action |-> "status_change",
                       from |-> rec.status, to |-> status]
         IN  [found |-> TRUE,
              records |-> [records EXCEPT ![job_id] =
                              [rec EXCEPT !.status = status,
                                          !.notes = notes_with(rec.notes, note),
                                          !.history = Append(rec.history, entry)]]]

\* prune_old_logs: the files that stay
prune_old_logs(dir, today, keep_days) ==
    LET kept == {f \in DOMAIN dir : ~(today - f[1] >= keep_days)}
    IN  [f \in kept |-> dir[f]]

CSV_COLS == {"job_id", "company", "title", "location", "post_date", "score", "reasons", "url", "source"}

\* write_csv: one row per entry, the fixed columns only
csv_rows(rows) == [i \in 1..Len(rows) |-> [c \in CSV_COLS |-> rows[i][c]]]

count_true(flags) == Cardinality({i \in 1..Len(flags) : flags[i]})

\* variant: the day's files are opened for appending
write_day_files_appending(dir, today, payload, rows) ==
    LET old(f, empty) == IF Has(dir, f) THEN dir[f] ELSE empty
        json == old(<<today, "json">>, [payload EXCEPT !.jobs = << >>, !.logs = << >>])
    IN  (<<today, "json">> :> [payload EXCEPT !.jobs = json.jobs \o payload.jobs,
                                              !.logs = json.logs \o payload.logs])
            @@ (<<today, "csv">> :> old(<<today, "csv">>, << >>) \o csv_rows(rows)) @@ dir

\* open(<date>.json, "w") with json.dump, then write_csv: each file is
\* created or replaced whole
write_day_files(dir, today, payload, rows) ==
    (<<today, "json">> :> payload) @@ (<<today, "csv">> :> csv_rows(rows)) @@ dir

\* variant: the seen store is updated from no entry
seen_input_nothing(fin, rk) == << >>

\* variant: the seen store is updated from the selected entries
seen_input_selected(fin, rk) == fin

\* the entries persist_outputs hands to update_seen_store: the ranked ones
seen_input(fin, rk) == rk

\* persist_outputs 746-753: the seen jobs to write and final with its flags
persist_seen(fin, rk, seenF, today) ==
    LET upd == update_seen_store(seen_input(fin, rk), seen_jobs_of(seenF), today)
    IN  [seen |-> upd[1], final |-> tag_is_new(fin, upd[2])]

\* persist_outputs 755-758: the status records to write
persist_ats(tagged, atsF, now) == ats_touch_all(ensure_ats(atsF), tagged, now)

\* persist_outputs 762-778: the log directory after the pruning and the
\* writing of the day's snapshot and CSV
persist_logs(tagged, lg, dir, now) ==
    LET today   == now.day
        pruned  == prune_old_logs(dir, today, KeepDays)
        payload == [run_id |-> today, generated_at |-> now,
                    stats |-> [final |-> Len(tagged),
                               new_today |-> count_true([k \in 1..Len(tagged) |-> LET x == tagged[k] IN x.is_new])],
                    jobs |-> tagged, logs |-> lg]
    IN  write_day_files(pruned, today, payload, tagged)

\* persist_outputs: the new <<seen file, ats file, log directory, final>>
persist(fin, rk, lg, seenF, atsF, dir, now) ==
    LET s == persist_seen(fin, rk, seenF, now.day)
    IN  <<write_json(seenF, s.seen, "none"),
          write_json(atsF, persist_ats(s.final, atsF, now), "none"),
          persist_logs(s.final, lg, dir, now), s.final>>

-----------------------------------------------------------------------------
(* Stage 1: Fetch *)

\* fetch_linkedin_stub: two fixed postings dated relative to today; lat the
\* two random.randint(120, 300) draws
fetch_linkedin_stub(today, lat) ==
    << RawJob("linkedin", "lnk-001", <<"Senior", "Product", "Manager">>, <<"Cognite">>,
              <<"Oslo", "NO">>, IsoDate(today - 1), "https://example.com/cognite-spm",
              <<"Lead", "B2B", "SaaS", "products", "with", "GenAI", "features",
                "English", "work", "environment">>,
              "en", "Senior", [latency_ms |-> lat[1]]),
       RawJob("linkedin", "lnk-002",
              <<"Produktleder", "for", "adresse", "og", "bostedsopplysninger">>,
              <<"Skatteetaten">>, <<"Oslo", "NO">>, IsoDate(today - 12),
              "https://example.com/skatteetaten-pl",
              <<"Forvalte", "kjerne", "data", "Norsk", "sprak", "kreves">>,
              "no", "None", [latency_ms |-> lat[2]]) >>

\* the day a post_date string parses to, today when it does not parse
date_or_today(post_date, today) == IF post_date.iso THEN post_date.day ELSE today

\* parse_finn_search on one JSON-LD JobPosting with a non-empty url
finn_posting(item, today) ==
    RawJob("finn", Prefix12Table[sha256(item.url)], item.title, item.company,
           <<(IF item.locality = None THEN "Oslo" ELSE item.locality[1]), "NO">>,
           IF item.datePosted = None THEN IsoDate(today) ELSE item.datePosted[1],
           item.url, item.description, "None", "None", << >>)

\* parse_finn_search on one <a href*='/job/'> with an absolute href
finn_anchor(a, today) ==
    RawJob("finn", Prefix12Table[sha256(a.href)], a.title, << >>, <<"Oslo", "NO">>,
           IsoDate(today), a.href, << >>, "None", "None", << >>)

\* parse_finn_search: the JSON-LD postings, the anchors when there is none
parse_finn_search(page, today) ==
    IF page.items # << >>
    THEN [i \in 1..Len(page.items) |-> finn_posting(page.items[i], today)]
    ELSE [i \in 1..Len(page.anchors) |-> finn_anchor(page.anchors[i], today)]

\* fetch_finn_real_or_stub: resp the outcome of http_get, lat the stub's draws
fetch_finn_real_or_stub(resp, window_days, today, lat) ==
    LET parsed   == parse_finn_search(resp.page, today)
        withLat  == [i \in 1..Len(parsed) |->
                        [parsed[i] EXCEPT !.source_meta = [latency_ms |-> resp.latency_ms]]]
        cutoff   == today - window_days
        filtered == SelectSeq(withLat, LAMBDA j : date_or_today(j.post_date, today) >= cutoff)
    IN  IF resp.ok /\ filtered # << >> THEN filtered
        ELSE fetch_linkedin_stub(today, lat)

KEY_PHRASES == << <<"product", "manager">>, <<"senior", "product", "manager">>, <<"product", "owner">> >>

\* query_matches, on whole words
query_matches(title, description) ==
    \E i \in 1..Len(KEY_PHRASES) :
        PhraseSearch(KEY_PHRASES[i], title) \/ PhraseSearch(KEY_PHRASES[i], description)

location_matches(loc_text, wanted_city_list) ==
    \E i \in 1..Len(wanted_city_list) : SubstringSearch(wanted_city_list[i], loc_text)

\* ", ".join(city_whitelist) as a text
join_cities(city_whitelist) == city_whitelist

\* fetch_greenhouse_boards for one board: resp the outcome of http_get_json
greenhouse_board(board, resp, city_whitelist, window_days, today) ==
    LET cutoff == today - window_days
        d(item) == IF item.updated = None THEN today ELSE date_or_today(item.updated[1], today)
        keep(item) ==
            /\ ~(city_whitelist # << >> /\ item.location # << >>
                    /\ ~location_matches(item.location, city_whitelist))
            /\ query_matches(item.title, item.content)
            /\ ~(d(item) < cutoff)
        kept == SelectSeq(resp.items, keep)
    IN  IF ~resp.ok THEN << >>
        ELSE [i \in 1..Len(kept) |->
                RawJob("greenhouse", kept[i].id, kept[i].title,
                       IF kept[i].company = << >> THEN <<board>> ELSE kept[i].company,
                       IF kept[i].location = << >> THEN join_cities(city_whitelist)
                       ELSE kept[i].location,
                       IsoDate(d(kept[i])), kept[i].url, kept[i].content, "None", "None",
                       [latency_ms |-> resp.latency_ms, board |-> board])]

\* fetch_lever_companies for one company
lever_company(comp, resp, city_whitelist, window_days, today) ==
    LET cutoff == today - window_days
        d(item) == IF item.createdAt = None THEN today ELSE item.createdAt[1]
        keep(item) ==
            /\ ~(d(item) < cutoff)
            /\ ~(city_whitelist # << >> /\ item.location # << >>
                    /\ ~location_matches(item.location, city_whitelist))
            /\ query_matches(item.title, item.content)
        kept == SelectSeq(resp.items, keep)
    IN  IF ~resp.ok THEN << >>
        ELSE [i \in 1..Len(kept) |->
                RawJob("lever", kept[i].id, kept[i].title, <<comp>>,
                       IF kept[i].location = << >> THEN join_cities(city_whitelist)
                       ELSE kept[i].location,
                       IsoDate(d(kept[i])), kept[i].url, kept[i].content, "None", "None",
                       [latency_ms |-> resp.latency_ms, company |-> comp])]

RECURSIVE concat_all(_)
concat_all(chunks) ==
    IF chunks = << >> THEN << >> ELSE Head(chunks) \o concat_all(Tail(chunks))

\* fetch_greenhouse_boards: resps[i] the outcome of the call for boards[i]
fetch_greenhouse_boards(boards, resps, city_whitelist, window_days, today) ==
    concat_all([i \in 1..Len(boards) |->
                   greenhouse_board(boards[i], resps[i], city_whitelist, window_days, today)])

fetch_lever_companies(companies, resps, city_whitelist, window_days, today) ==
    concat_all([i \in 1..Len(companies) |->
                   lever_company(companies[i], resps[i], city_whitelist, window_days, today)])

-----------------------------------------------------------------------------
(* Preferences *)

\* load_prefs: read_json(PREFS_PATH, {}) with the three defaults
load_prefs(file) ==
    IF file = None
    THEN [CITY_WHITELIST |-> DEFAULT_CITY_WHITELIST,
          SKIP_COMPANIES |-> DEFAULT_SKIP_COMPANIES,
          PRIORITY_COMPANIES |-> DEFAULT_PRIORITY_COMPANIES]
    ELSE file[1]

\* the company names of the model in the order sorted() gives them
COMPANY_ORDER == << <<"Acme">>, <<"Cognite">>, <<"Skatteetaten">> >>

\* sorted(set(names) | {name})
sorted_with(names, name) ==
    SelectSeq(COMPANY_ORDER, LAMBDA c : c \in Range(names) \cup {name})

-----------------------------------------------------------------------------
(* Log lines: the stage and the counters each line prints *)

\* sorted(ages)[len(ages) // 2]
median_age(fin) ==
    LET k == Len(fin) \div 2
        below(v) == Cardinality({i \in 1..Len(fin) : fin[i].age_days < v})
        upto(v)  == Cardinality({i \in 1..Len(fin) : fin[i].age_days <= v})
    IN  IF fin = << >> THEN None
        ELSE Some(CHOOSE v \in {fin[i].age_days : i \in 1..Len(fin)} : below(v) <= k /\ k < upto(v))

RECURSIVE fetch_loop(_, _, _, _)
\* the loop of stage_fetch over the adapters' outcomes: a chunk extends the
\* results and counts as ok, an exception only leaves its log line
fetch_loop(outcomes, results, ok, lines) ==
    IF outcomes = << >> THEN [results |-> results, ok |-> ok, lines |-> lines]
    ELSE IF Head(outcomes).raised
         THEN fetch_loop(Tail(outcomes), results, ok,
                         Append(lines, [stage |-> "FetchLatency", error |-> TRUE]))
         ELSE fetch_loop(Tail(outcomes), results \o Head(outcomes).chunk, ok + 1,
                         Append(lines, [stage |-> "FetchLatency",
                                        size |-> Len(Head(outcomes).chunk)]))

\* variant: the first exception ends the loop
stage_fetch_abort_on_raise(outcomes) ==
    LET stop == IF \E i \in 1..Len(outcomes) : outcomes[i].raised
                THEN (CHOOSE i \in 1..Len(outcomes) :
                         outcomes[i].raised /\ \A k \in 1..(i - 1) : ~outcomes[k].raised)
                ELSE Len(outcomes) + 1
        r    == fetch_loop(SubSeq(outcomes, 1, Min(stop, Len(outcomes))), << >>, 0, << >>)
    IN  [results |-> r.results,
         logs |-> r.lines \o <<[stage |-> "Fetch", count |-> Len(r.results),
                                sources_ok |-> r.ok, sources_total |-> Len(outcomes)]>>]

\* stage_fetch on the outcomes of its adapters, in adapter order: the
\* results and the log lines
stage_fetch(outcomes) ==
    LET r == fetch_loop(outcomes, << >>, 0, << >>)
    IN  [results |-> r.results,
         logs |-> r.lines \o <<[stage |-> "Fetch", count |-> Len(r.results),
                                sources_ok |-> r.ok, sources_total |-> Len(outcomes)]>>]

rollup_log(rs, js, fin) ==
    [stage |-> "Rollup", fetched |-> Len(rs), unique |-> Len(js), final |-> Len(fin),
     median_age |-> median_age(fin),
     english_ok |-> count_true([k \in 1..Len(fin) |-> LET x == fin[k] IN x.english_ok = "True"]),
     genai_hits |-> count_true([k \in 1..Len(fin) |-> LET x == fin[k] IN {"GenAI", "LLM"} \cap Range(x.keywords) # {}]),
     errors |-> 0]

-----------------------------------------------------------------------------
(* The world outside the program: what the sites answer, what the operator *)
(* types.  An environment env gives the sets the actions draw from.        *)

FinnItem(url, title, company, datePosted, description) ==
    [url |-> url, title |-> title, company |-> company, locality |-> None,
     datePosted |-> datePosted, description |-> description]

HttpFail == [ok |-> FALSE, latency_ms |-> 0, page |-> [items |-> << >>, anchors |-> << >>],
             items |-> << >>]

FinnOk(items, anchors, latency_ms) ==
    [ok |-> TRUE, latency_ms |-> latency_ms, page |-> [items |-> items, anchors |-> anchors],
     items |-> << >>]

JsonOk(items, latency_ms) ==
    [ok |-> TRUE, latency_ms |-> latency_ms, page |-> [items |-> << >>, anchors |-> << >>],
     items |-> items]

T_PM == <<"Product", "Manager">>

T_ENG == <<"Engineer">>

D_B2B == <<"B2B", "English", "SQL">>

D_NORSK == <<"Norsk", "sprak", "kreves">>

D_NORWEGIAN == <<"Norwegian", "required", "SaaS">>

URL1 == "https://www.finn.no/job/1"

URL2 == "https://www.finn.no/job/2"

URL3 == "https://www.finn.no/job/3"

GH_ITEM ==
    [id |-> "4001", title |-> T_PM, url |-> "https://boards.greenhouse.io/gelato/jobs/4001",
     location |-> <<"Oslo">>, updated |-> Some(IsoDate(FirstDay - 2)),
     content |-> <<"roadmap", "work">>, company |-> << >>]

GH_ITEM_BERGEN == [GH_ITEM EXCEPT !.location = <<"Bergen">>]

\* the same role at the same company as LEVER_ITEM, on the other site
GH_ITEM_COGNITE == [GH_ITEM EXCEPT !.company = <<"cognite">>]

LEVER_ITEM ==
    [id |-> "4001", title |-> T_PM, url |-> "https://jobs.lever.co/cognite/4001",
     location |-> << >>, createdAt |-> Some(FirstDay - 2),
     content |-> <<"roadmap", "work">>]

\* every JSON-LD posting FINN may show: one url, all the other fields varied
FinnItemsWide ==
    {FinnItem(URL1, t, c, d, x) :
        t \in {T_PM, T_ENG}, c \in {<<"Acme">>, <<"Skatteetaten">>},
        d \in {Some(IsoDate(FirstDay - 1)), Some(IsoDate(FirstDay - 5)),
               Some(IsoDate(FirstDay - 10)), Some(IsoDate(FirstDay + 2)), Some(BadDate), None},
        x \in {<< >>, D_B2B, D_NORSK, D_NORWEGIAN}}

\* postings that share title and company, or share the url, for the pages
\* that carry several
FinnItemsPaired ==
    {FinnItem(URL1, T_PM, <<"Acme">>, Some(IsoDate(FirstDay - 1)), D_B2B),
     FinnItem(URL2, T_PM, <<"Acme">>, Some(IsoDate(FirstDay - 1)), D_B2B),
     FinnItem(URL1, T_ENG, <<"Skatteetaten">>, Some(IsoDate(FirstDay - 5)), D_NORSK),
     FinnItem(URL2, T_ENG, <<"Acme">>, Some(IsoDate(FirstDay - 5)), << >>)}

FinnAnchors == {<< >>, <<[title |-> T_PM, href |-> URL3]>>}

PrefsDoc(skip, priority) ==
    [CITY_WHITELIST |-> DEFAULT_CITY_WHITELIST, SKIP_COMPANIES |-> skip,
     PRIORITY_COMPANIES |-> priority]

\* the environment of one pipeline run in all its variety
WideEnv ==
    [finn  |-> {HttpFail}
                 \cup {FinnOk(<< >>, a, 250) : a \in FinnAnchors}
                 \cup {FinnOk(<<i>>, << >>, l) : i \in FinnItemsWide, l \in {250}}
                 \cup {FinnOk(p, << >>, l) :
                         p \in {q \in SeqsUpTo(FinnItemsPaired, MaxChunk) : Len(q) >= 2},
                         l \in {250, 900}},
     gh    |-> {HttpFail, JsonOk(<<GH_ITEM>>, 250), JsonOk(<<GH_ITEM_BERGEN, GH_ITEM_COGNITE>>, 250)},
     lever |-> {HttpFail, JsonOk(<<LEVER_ITEM>>, 250)},
     lat   |-> {<<120, 300>>},
     raises |-> {{}},
     days  |-> {7, 14},
     tops  |-> {1, 3}]

\* a small environment for behaviours of several commands
NarrowEnv ==
    [finn  |-> {HttpFail}
                 \cup {FinnOk(p, << >>, 250) :
                         p \in {<<FinnItem(URL1, T_PM, <<"Acme">>, Some(IsoDate(FirstDay - 1)), D_B2B)>>,
                                <<FinnItem(URL2, T_PM, <<"Acme">>, None, << >>),
                                  FinnItem(URL1, T_ENG, <<"Acme">>, Some(IsoDate(FirstDay - 1)), D_B2B)>>}},
     gh    |-> {JsonOk(<<GH_ITEM>>, 250)},
     lever |-> {HttpFail},
     lat   |-> {<<120, 300>>},
     raises |-> {{}},
     days  |-> {7},
     tops  |-> {1, 2}]

CONFIGS ==
    {[GREENHOUSE_BOARDS |-> << >>, LEVER_COMPANIES |-> << >>],
     [GREENHOUSE_BOARDS |-> <<"gelato">>, LEVER_COMPANIES |-> <<"cognite">>]}

-----------------------------------------------------------------------------
(* Actions *)

\* no transport call made yet: what the calls that ended have returned, and
\* the answers and the sleeps of the latest call, which is running or ended
HttpIdle == [done |-> << >>, running |-> FALSE, answers |-> << >>, slept |-> << >>]

\* the run command's variables when no run command is running
NoArgs == [days |-> 0, top |-> 0]

NoPrefs == [CITY_WHITELIST |-> << >>, SKIP_COMPANIES |-> << >>, PRIORITY_COMPANIES |-> << >>]

persistent == <<prefsFile, seenFile, atsFile, logDir>>

locals == <<args, prefs, raws, jobs, ranked, final, logs>>

\* variant: no guard
quiet_window_never(now) == FALSE

\* the guard of run_pipeline: datetime.now().hour >= QUIET_AFTER_HOUR
quiet_window(now) == now.hour >= QUIET_AFTER_HOUR

\* cmd_run up to the quiet-hours guard of run_pipeline
CmdRun(env, limit) ==
    /\ pc = "idle"
    /\ nCmds < limit
    /\ nCmds' = nCmds + 1
    /\ \E d \in env.days, t \in env.tops : args' = [days |-> d, top |-> t]
    /\ prefs' = load_prefs(prefsFile)
    /\ raws' = << >>
    /\ jobs' = << >>
    /\ ranked' = << >>
    /\ final' = << >>
    /\ IF quiet_window(clock)
       THEN /\ logs' = <<[stage |-> "Guard"]>>
            /\ pc' = "persist"
       ELSE /\ logs' = << >>
            /\ pc' = "fetch"
    /\ out' = "run"
    /\ http' = HttpIdle
    /\ UNCHANGED <<clock, cfg, persistent>>

\* stage_fetch on given transport outcomes: every adapter once, in the order
\* the list is assembled
StageFetchOn(finnResp, lat1, lat2, ghResps, leverResps, raising) ==
    /\ pc = "fetch"
    /\ LET cities == prefs.CITY_WHITELIST
           adapter(name, chunk) == [raised |-> name \in raising, chunk |-> chunk]
           outcomes ==
               (IF cfg.GREENHOUSE_BOARDS # << >>
                THEN <<adapter("greenhouse",
                               fetch_greenhouse_boards(cfg.GREENHOUSE_BOARDS, ghResps, cities,
                                                       args.days, clock.day))>>
                ELSE << >>)
               \o (IF cfg.LEVER_COMPANIES # << >>
                   THEN <<adapter("lever",
                                  fetch_lever_companies(cfg.LEVER_COMPANIES, leverResps, cities,
                                                        args.days, clock.day))>>
                   ELSE << >>)
               \o <<adapter("finn", fetch_finn_real_or_stub(finnResp, args.days, clock.day, lat1))>>
               \o <<adapter("linkedin", fetch_linkedin_stub(clock.day, lat2))>>
           fetched == stage_fetch(outcomes)
       IN  /\ raws' = fetched.results
           /\ logs' = logs \o fetched.logs
    /\ pc' = "normalize"
    /\ UNCHANGED <<clock, cfg, http, persistent, args, prefs, jobs, ranked, final, out, nCmds>>

\* stage_fetch with each transport call answered at once by the environment
StageFetch(env) ==
    \E finnResp \in env.finn, lat1 \in env.lat, lat2 \in env.lat,
       ghResps \in [1..Len(cfg.GREENHOUSE_BOARDS) -> env.gh],
       leverResps \in [1..Len(cfg.LEVER_COMPANIES) -> env.lever],
       raising \in env.raises :
        StageFetchOn(finnResp, lat1, lat2, ghResps, leverResps, raising)

StageNormalize ==
    /\ pc = "normalize"
    /\ jobs' = normalize_all(raws, clock)
    /\ logs' = Append(logs, [stage |-> "Normalize", in |-> Len(raws), out |-> Len(raws)])
    /\ pc' = "dedup"
    /\ UNCHANGED <<clock, cfg, http, persistent, args, prefs, raws, ranked, final, out, nCmds>>

StageDedup ==
    /\ pc = "dedup"
    /\ jobs' = dedup(jobs)
    /\ logs' = Append(logs, [stage |-> "Dedup", before |-> Len(jobs), after |-> Len(jobs'),
                             merged_pairs |-> Len(jobs) - Len(jobs')])
    /\ pc' = "translate"
    /\ UNCHANGED <<clock, cfg, http, persistent, args, prefs, raws, ranked, final, out, nCmds>>

StageTranslate ==
    /\ pc = "translate"
    /\ jobs' = translate_all(jobs)
    /\ logs' = Append(logs, [stage |-> "Translate",
                             translated |-> count_true([k \in 1..Len(jobs) |-> LET j == jobs[k] IN j.needs_translation])])
    /\ pc' = "enrich"
    /\ UNCHANGED <<clock, cfg, http, persistent, args, prefs, raws, ranked, final, out, nCmds>>

StageEnrich ==
    /\ pc = "enrich"
    /\ jobs' = enrich_all(jobs)
    /\ logs' = Append(logs, [stage |-> "Enrich", enriched |-> Len(jobs),
                             english_ok |-> count_true([k \in 1..Len(jobs') |-> LET j == jobs'[k] IN j.signals.english_ok = "True"]),
                             norwegian_required |-> count_true([k \in 1..Len(jobs') |-> LET j == jobs'[k] IN j.signals.english_ok = "False"])])
    /\ pc' = "rank"
    /\ UNCHANGED <<clock, cfg, http, persistent, args, prefs, raws, ranked, final, out, nCmds>>

StageRank ==
    /\ pc = "rank"
    /\ ranked' = rank(jobs, prefs)
    /\ logs' = Append(logs, [stage |-> "Rank", ranked |-> Len(ranked'),
                             top1 |-> IF ranked' = << >> THEN None
                                      ELSE Some(<<ranked'[1].company, ranked'[1].title>>)])
    /\ pc' = "select"
    /\ UNCHANGED <<clock, cfg, http, persistent, args, prefs, raws, jobs, final, out, nCmds>>

\* stage_select and the rollup that ends run_pipeline
StageSelect ==
    /\ pc = "select"
    /\ final' = select(ranked, args.top)
    /\ logs' = logs \o <<[stage |-> "Select", final_count |-> Len(final'),
                          new_today |-> count_true([k \in 1..Len(final') |-> LET x == final'[k] IN x.age_days = 0]),
                          existing |-> Len(final') - count_true([k \in 1..Len(final') |-> LET x == final'[k] IN x.age_days = 0])],
                         rollup_log(raws, jobs, final')>>
    /\ pc' = "persist"
    /\ UNCHANGED <<clock, cfg, http, persistent, args, prefs, raws, jobs, ranked, out, nCmds>>

\* persist_outputs, after which cmd_run prints and the process ends
PersistOutputs ==
    /\ pc = "persist"
    /\ LET p == persist(final, ranked, logs, seenFile, atsFile, logDir, clock)
       IN  /\ seenFile' = p[1]
           /\ atsFile' = p[2]
           /\ logDir' = p[3]
    /\ raws' = << >>
    /\ jobs' = << >>
    /\ ranked' = << >>
    /\ final' = << >>
    /\ logs' = << >>
    /\ pc' = "idle"
    /\ out' = "run done"
    /\ args' = NoArgs
    /\ prefs' = NoPrefs
    /\ http' = HttpIdle
    /\ UNCHANGED <<clock, cfg, prefsFile, nCmds>>

\* cmd_mark: the records are written only when the job_id has one
CmdMark(job_id, status, note) ==
    /\ pc = "idle"
    /\ nCmds < MaxCmds
    /\ nCmds' = nCmds + 1
    /\ LET m == mark(ensure_ats(atsFile), job_id, status, note, clock)
       IN  IF ~m.found
           THEN /\ out' = "Job ID not found in ATS records"
                /\ UNCHANGED atsFile
           ELSE /\ atsFile' = Some(m.records)
                /\ out' = "Updated"
    /\ UNCHANGED <<clock, cfg, http, prefsFile, seenFile, logDir, pc, locals>>

\* cmd_list: prints the records, optionally those of one status
CmdList(status) ==
    /\ pc = "idle"
    /\ nCmds < MaxCmds
    /\ nCmds' = nCmds + 1
    /\ LET recs  == ensure_ats(atsFile)
           items == {j \in DOMAIN recs : status = "None" \/ recs[j].status = status}
       IN  out' = "Found records"
    /\ UNCHANGED <<clock, cfg, http, persistent, pc, locals>>

\* cmd_prefs: each option is << >> when not given
CmdPrefs(add_skip, add_priority, set_cities) ==
    /\ pc = "idle"
    /\ nCmds < MaxCmds
    /\ nCmds' = nCmds + 1
    /\ LET p0 == load_prefs(prefsFile)
           p1 == IF add_skip # None
                 THEN [p0 EXCEPT !.SKIP_COMPANIES = sorted_with(p0.SKIP_COMPANIES, add_skip[1])]
                 ELSE p0
           p2 == IF add_priority # None
                 THEN [p1 EXCEPT !.PRIORITY_COMPANIES = sorted_with(p1.PRIORITY_COMPANIES, add_priority[1])]
                 ELSE p1
           p3 == IF set_cities # None THEN [p2 EXCEPT !.CITY_WHITELIST = set_cities[1]] ELSE p2
       IN  prefsFile' = Some(p3)
    /\ out' = "Saved prefs"
    /\ UNCHANGED <<clock, cfg, http, seenFile, atsFile, logDir, pc, locals>>

\* the wall clock moves on between two commands: to the quiet hours of the
\* day, or to the morning of the next day
Tick ==
    /\ pc = "idle"
    /\ \/ /\ clock.hour < QUIET_AFTER_HOUR
          /\ clock' = [clock EXCEPT !.hour = 12]
       \/ /\ clock.day < FirstDay + MaxDays
          /\ clock' = [day |-> clock.day + 1, hour |-> 9]
    /\ UNCHANGED <<cfg, http, persistent, pc, locals, out, nCmds>>

\* the stages of run_pipeline after Fetch
PipelineStages ==
    \/ StageNormalize \/ StageDedup \/ StageTranslate \/ StageEnrich
    \/ StageRank \/ StageSelect

Stages == PipelineStages \/ PersistOutputs

\* every job id the model can produce, and one that no posting has
JOB_IDS ==
    {sha256(k) : k \in {"linkedin:lnk-001", "linkedin:lnk-002", "greenhouse:4001", "lever:4001",
                        "finn:54b0f54ea52c", "finn:b84fe46d765c", "finn:eac31794f29d"}}

UNKNOWN_ID == "0000"

-----------------------------------------------------------------------------
(* The program: any sequence of commands, one at a time *)

Init ==
    /\ clock = [day |-> FirstDay, hour |-> 9]
    /\ cfg \in CONFIGS
    /\ prefsFile = None
    /\ seenFile = None
    /\ atsFile = None
    /\ logDir = EmptyMap
    /\ pc = "idle"
    /\ args = NoArgs
    /\ prefs = NoPrefs
    /\ raws = << >>
    /\ jobs = << >>
    /\ ranked = << >>
    /\ final = << >>
    /\ logs = << >>
    /\ out = ""
    /\ nCmds = 0
    /\ http = HttpIdle

Next ==
    \/ CmdRun(NarrowEnv, MaxCmds)
    \/ StageFetch(NarrowEnv)
    \/ Stages
    \/ \E m \in {[job_id |-> sha256("linkedin:lnk-001"), status |-> "applied", note |-> "called them"],
                  [job_id |-> UNKNOWN_ID, status |-> "applied", note |-> "called them"]} :
          CmdMark(m.job_id, m.status, m.note)
    \/ \E s \in {"discovered"} : CmdList(s)
    \/ \E o \in {[skip |-> Some(<<"Cognite">>), priority |-> Some(<<"Acme">>), cities |-> Some(<<"Oslo">>)]} :
          CmdPrefs(o.skip, o.priority, o.cities)
    \/ Tick

Spec == Init /\ [][Next]_vars

(* The status store: runs that select the stub postings, and every mark *)

MarkEnv ==
    [finn  |-> {HttpFail},
     gh    |-> {HttpFail},
     lever |-> {HttpFail},
     lat   |-> {<<120, 300>>},
     raises |-> {{}},
     days  |-> {7},
     tops  |-> {1, 2}]

\* the mark commands: a known and an unknown job_id, every status, with and
\* without a note
MARKS ==
    [job_id : {sha256("linkedin:lnk-001"), UNKNOWN_ID}, status : STATUSES,
     note : {"", "called them"}]

NextMark ==
    \/ CmdRun(MarkEnv, MaxCmds)
    \/ StageFetch(MarkEnv)
    \/ Stages
    \/ \E m \in MARKS : CmdMark(m.job_id, m.status, m.note)

SpecMark == Init /\ [][NextMark]_vars

(* One pipeline run, over every posting, preference and argument of WideEnv *)

InitStages ==
    /\ clock \in {[day |-> FirstDay, hour |-> 9], [day |-> FirstDay, hour |-> 12]}
    /\ cfg \in CONFIGS
    /\ prefsFile \in {None,
                      Some(PrefsDoc(<< <<"Acme">>, <<"Skatteetaten">> >>, << >>)),
                      Some(PrefsDoc(<< <<"Acme">> >>, << <<"Acme">>, <<"Cognite">> >>))}
    /\ seenFile = None
    /\ atsFile = None
    /\ logDir = EmptyMap
    /\ pc = "idle"
    /\ args = NoArgs
    /\ prefs = NoPrefs
    /\ raws = << >>
    /\ jobs = << >>
    /\ ranked = << >>
    /\ final = << >>
    /\ logs = << >>
    /\ out = ""
    /\ nCmds = 0
    /\ http = HttpIdle

NextStages ==
    \/ CmdRun(WideEnv, 1)
    \/ StageFetch(WideEnv)
    \/ Stages

SpecStages == InitStages /\ [][NextStages]_vars

(* One pipeline run in which adapters may raise *)

ADAPTERS == {"greenhouse", "lever", "finn", "linkedin"}

\* any adapter call may end in an exception: ", ".join(city_whitelist) on a
\* prefs file whose cities are not strings, or an error below the adapter
FetchEnv ==
    [finn  |-> {HttpFail}
                 \cup {FinnOk(p, << >>, 250) :
                         p \in {q \in SeqsUpTo(FinnItemsPaired, MaxChunk) : Len(q) >= 1}},
     gh    |-> {HttpFail, JsonOk(<<GH_ITEM>>, 250)},
     lever |-> {HttpFail, JsonOk(<<LEVER_ITEM>>, 250)},
     lat   |-> {<<120, 300>>},
     raises |-> SUBSET ADAPTERS,
     days  |-> {7},
     tops  |-> {1, 3}]

NextFetch ==
    \/ CmdRun(FetchEnv, 1)
    \/ StageFetch(FetchEnv)
    \/ Stages

SpecFetch == Init /\ [][NextFetch]_vars

(* One pipeline run with the transport in steps: http_get attempt by attempt *)

HTTP_RETRIES == 3

\* backoff, in tenths of a second
HTTP_BACKOFF == 8

RECURSIVE Pow2(_)
Pow2(n) == IF n = 0 THEN 1 ELSE 2 * Pow2(n - 1)

\* variant: the same delay after every failed attempt
backoff_delay_constant(i) == HTTP_BACKOFF

\* time.sleep(backoff * (2 ** i)) after the failed attempt i = 0, 1, ...
backoff_delay(i) == HTTP_BACKOFF * Pow2(i)

\* what requests.get may do other than answer 200 with a body
BAD_ANSWERS == {"status", "empty", "exception"}

\* the http_get calls of one stage_fetch, in the order they are made: one
\* for each Greenhouse board, one for each Lever company, one for FINN
transport_calls(c) ==
    [i \in 1..Len(c.GREENHOUSE_BOARDS) |-> "gh"]
        \o [i \in 1..Len(c.LEVER_COMPANIES) |-> "lever"]
        \o <<"finn">>

\* the bodies the sites answer with when they answer
HttpEnv ==
    [finn  |-> {FinnOk(p, << >>, 250) :
                   p \in {<<FinnItem(URL1, T_PM, <<"Acme">>, Some(IsoDate(FirstDay - 1)), D_B2B)>>,
                          <<FinnItem(URL1, T_PM, <<"Acme">>, Some(IsoDate(FirstDay - 30)), D_B2B)>>}},
     gh    |-> {JsonOk(<<GH_ITEM>>, 250), JsonOk(<< >>, 250)},
     lever |-> {JsonOk(<<LEVER_ITEM>>, 250)},
     lat   |-> {<<120, 300>>},
     raises |-> {{}},
     days  |-> {7},
     tops  |-> {1, 3}]

\* one iteration of the for loop of http_get, the first one starting the
\* next call: the answer returns the body, or is followed by the sleep and,
\* after the last iteration, by the RuntimeError
HttpAttempt(env) ==
    /\ pc = "fetch"
    /\ Len(http.done) < Len(transport_calls(cfg))
    /\ LET kind  == transport_calls(cfg)[Len(http.done) + 1]
           before == IF http.running THEN http.answers ELSE << >>
           sleeps == IF http.running THEN http.slept ELSE << >>
           i     == Len(before)
       IN  \/ \E body \in env[kind] :
                 http' = [done |-> Append(http.done, body), running |-> FALSE,
                          answers |-> Append(before, "200"), slept |-> sleeps]
           \/ \E bad \in BAD_ANSWERS :
                 http' = [done |-> IF i + 1 < HTTP_RETRIES THEN http.done
                                   ELSE Append(http.done, HttpFail),
                          running |-> i + 1 < HTTP_RETRIES,
                          answers |-> Append(before, bad),
                          slept |-> Append(sleeps, backoff_delay(i))]
    /\ UNCHANGED <<clock, cfg, persistent, pc, locals, out, nCmds>>

\* stage_fetch once every transport call has returned or raised
StageFetchHttp(env) ==
    /\ Len(http.done) = Len(transport_calls(cfg))
    /\ LET nb == Len(cfg.GREENHOUSE_BOARDS)
           nl == Len(cfg.LEVER_COMPANIES)
       IN  \E lat1 \in env.lat, lat2 \in env.lat :
              StageFetchOn(http.done[nb + nl + 1], lat1, lat2,
                           [i \in 1..nb |-> http.done[i]],
                           [i \in 1..nl |-> http.done[nb + i]], {})

NextHttp ==
    \/ CmdRun(HttpEnv, 1)
    \/ HttpAttempt(HttpEnv)
    \/ StageFetchHttp(HttpEnv)
    \/ Stages

\* a started process runs on: requests.get has a timeout, time.sleep ends
SpecHttp ==
    /\ Init
    /\ [][NextHttp]_vars
    /\ WF_vars(HttpAttempt(HttpEnv))
    /\ WF_vars(StageFetchHttp(HttpEnv))

(* Pipeline runs that may stop while a store is written *)

\* the process is gone: the next command starts from the files
Stopped ==
    /\ pc' = "idle"
    /\ out' = "stopped"
    /\ args' = NoArgs
    /\ prefs' = NoPrefs
    /\ raws' = << >>
    /\ jobs' = << >>
    /\ ranked' = << >>
    /\ final' = << >>
    /\ logs' = << >>

\* persist_outputs 746-753: the seen store is read, updated and written, and
\* final gets its is_new flags
PersistSeen(stopped) ==
    /\ pc = "persist"
    /\ LET s == persist_seen(final, ranked, seenFile, clock.day)
       IN  /\ seenFile' = write_json(seenFile, s.seen, stopped)
           /\ IF stopped # "none" THEN Stopped
              ELSE /\ final' = s.final
                   /\ pc' = "persist ats"
                   /\ UNCHANGED <<args, prefs, raws, jobs, ranked, logs, out>>
    /\ UNCHANGED <<clock, cfg, http, prefsFile, atsFile, logDir, nCmds>>

\* persist_outputs 755-759: the status store is read, touched and written
PersistAts(stopped) ==
    /\ pc = "persist ats"
    /\ atsFile' = write_json(atsFile, persist_ats(final, atsFile, clock), stopped)
    /\ IF stopped # "none" THEN Stopped
       ELSE /\ pc' = "persist logs"
            /\ UNCHANGED <<locals, out>>
    /\ UNCHANGED <<clock, cfg, http, prefsFile, seenFile, logDir, nCmds>>

\* persist_outputs 761-778, after which cmd_run prints and the process ends
PersistLogs ==
    /\ pc = "persist logs"
    /\ logDir' = persist_logs(final, logs, logDir, clock)
    /\ raws' = << >>
    /\ jobs' = << >>
    /\ ranked' = << >>
    /\ final' = << >>
    /\ logs' = << >>
    /\ pc' = "idle"
    /\ out' = "run done"
    /\ args' = NoArgs
    /\ prefs' = NoPrefs
    /\ UNCHANGED <<clock, cfg, http, prefsFile, seenFile, atsFile, nCmds>>

NextCrash ==
    \/ CmdRun(MarkEnv, MaxCmds)
    \/ StageFetch(MarkEnv)
    \/ PipelineStages
    \/ \E stopped \in STOPS : PersistSeen(stopped)
    \/ \E stopped \in STOPS : PersistAts(stopped)
    \/ PersistLogs

SpecCrash == Init /\ [][NextCrash]_vars

(* One pipeline run over a log directory that earlier days have filled *)

\* the days, counted back from the first day, of which the directory may
\* hold the artifacts
OLD_AGES == {6, 7, 8}

RECURSIVE logs_of_days(_)
\* the directory after a run at quiet hours on each of the days, oldest first
logs_of_days(days) ==
    IF days = {} THEN EmptyMap
    ELSE LET last == CHOOSE d \in days : \A e \in days : e <= d
         IN  persist_logs(<< >>, <<[stage |-> "Guard"]>>, logs_of_days(days \ {last}),
                          [day |-> last, hour |-> 12])

InitPrune ==
    /\ clock = [day |-> FirstDay, hour |-> 9]
    /\ cfg \in CONFIGS
    /\ prefsFile = None
    /\ seenFile \in {None, Some(EmptyMap)}
    /\ atsFile = seenFile
    /\ \E ages \in SUBSET OLD_AGES :
          /\ seenFile = None <=> ages = {}
          /\ logDir = logs_of_days({FirstDay - a : a \in ages})
    /\ pc = "idle"
    /\ args = NoArgs
    /\ prefs = NoPrefs
    /\ raws = << >>
    /\ jobs = << >>
    /\ ranked = << >>
    /\ final = << >>
    /\ logs = << >>
    /\ out = ""
    /\ nCmds = 0
    /\ http = HttpIdle

NextPrune ==
    \/ CmdRun(NarrowEnv, 1)
    \/ StageFetch(NarrowEnv)
    \/ Stages

SpecPrune == InitPrune /\ [][NextPrune]_vars

-----------------------------------------------------------------------------
(* Properties *)

SourcePair(raw) == <<raw.source, raw.source_job_id>>

\* the raw posting of the batch with every field but (source, source_job_id)
\* changed, as another run at another time may see it
Edited(raw) ==
    [raw EXCEPT !.title = <<"Owner">>, !.company = <<"Bergen", "Agency">>,
                !.post_date = BadDate, !.url = URL2, !.description_raw = D_NORSK,
                !.source_meta = << >>]

LaterRun == [day |-> FirstDay + 30, hour |-> 8]

\* C1: after Normalize, two raw postings of the batch with equal
\* (source, source_job_id) have the same job_id, and a posting keeps its
\* job_id when every other field of it changes and the run is a later one.
C1_IdentityStable ==
    pc = "dedup" =>
        /\ \A i, k \in 1..Len(raws) :
              SourcePair(raws[i]) = SourcePair(raws[k]) => jobs[i].job_id = jobs[k].job_id
        /\ \A i \in 1..Len(raws) :
              normalize_job(Edited(raws[i]), LaterRun).job_id = jobs[i].job_id

C1_Witness ==
    /\ pc = "dedup"
    /\ \E i, k \in 1..Len(raws) :
          /\ SourcePair(raws[i]) = SourcePair(raws[k])
          /\ raws[i].title # raws[k].title
          /\ raws[i].company # raws[k].company
          /\ raws[i].post_date # raws[k].post_date
          /\ jobs[i].job_id = jobs[k].job_id

DistinctPairs(rs) == {SourcePair(rs[i]) : i \in 1..Len(rs)}

\* C2: raw postings with different (source, source_job_id) get different
\* job_ids, and Dedup keeps one job for each pair of the batch, whatever the
\* titles and companies.
C2_DistinctKept ==
    /\ pc = "dedup" =>
          \A i, k \in 1..Len(raws) :
              SourcePair(raws[i]) # SourcePair(raws[k]) => jobs[i].job_id # jobs[k].job_id
    /\ pc = "translate" =>
          /\ Len(jobs) = Cardinality(DistinctPairs(raws))
          /\ \A i \in 1..Len(raws) :
                \E a \in 1..Len(jobs) :
                    /\ jobs[a].source = raws[i].source
                    /\ jobs[a].job_id = normalize_job(raws[i], clock).job_id

C2_Witness ==
    /\ pc = "translate"
    /\ \E i, k \in 1..Len(raws) :
          /\ raws[i].source = "greenhouse" /\ raws[k].source = "lever"
          /\ raws[i].source_job_id = raws[k].source_job_id
          /\ raws[i].title = raws[k].title
          /\ raws[i].company = raws[k].company
          /\ \E a, b \in 1..Len(jobs) :
                /\ a # b
                /\ jobs[a].source = "greenhouse" /\ jobs[b].source = "lever"
                /\ jobs[a].title = jobs[b].title /\ jobs[a].company = jobs[b].company

\* the positions of batch B that hold the first job of their job_id
FirstOccurrences(B) ==
    {i \in 1..Len(B) : \A k \in 1..(i - 1) : B[k].job_id # B[i].job_id}

\* the p-th smallest element of a set of numbers
Nth(S, p) == CHOOSE i \in S : Cardinality({k \in S : k <= i}) = p

\* C3: the Dedup step leaves exactly the first job of every job_id of its
\* input, unchanged, in the input's order.
C3_DedupFirstWins ==
    [][pc = "dedup" =>
          /\ Len(jobs') = Cardinality(FirstOccurrences(jobs))
          /\ \A p \in 1..Len(jobs') : jobs'[p] = jobs[Nth(FirstOccurrences(jobs), p)]]_vars

C3_Witness ==
    /\ pc = "translate"
    /\ Len(jobs) >= 2
    /\ \E i, k \in 1..Len(raws) :
          /\ i < k
          /\ SourcePair(raws[i]) = SourcePair(raws[k])
          /\ raws[i].title # raws[k].title
          /\ \E a \in 1..Len(jobs) :
                jobs[a].url = raws[i].url /\ jobs[a].title = raws[i].title

\* C4: Dedup applied to the batch Dedup has produced gives that batch back.
C4_DedupIdempotent == pc = "translate" => dedup(jobs) = jobs

C4_Witness ==
    /\ pc = "translate"
    /\ Len(jobs) >= 2
    /\ Len(jobs) < Len(raws)

\* C5: the Translate step changes no job's title or company, and the title
\* and company of every ranked entry are those of a raw posting of the batch
\* with the entry's source and url.
C5_TranslateKeepsTitleCompany ==
    [][/\ pc = "translate" =>
             /\ Len(jobs') = Len(jobs)
             /\ \A i \in 1..Len(jobs) :
                   jobs'[i].title = jobs[i].title /\ jobs'[i].company = jobs[i].company
       /\ pc = "rank" =>
             \A e \in Range(ranked') :
                 \E i \in 1..Len(raws) :
                     /\ raws[i].source = e.source /\ raws[i].url = e.url
                     /\ raws[i].title = e.title /\ raws[i].company = e.company]_vars

C5_Witness ==
    /\ pc = "enrich"
    /\ \E i \in 1..Len(jobs) :
          /\ jobs[i].needs_translation
          /\ jobs[i].description_en # Some(jobs[i].description_raw)
          /\ jobs[i].source_meta.translation_confidence = Some(6)
    /\ \E i \in 1..Len(jobs) : ~jobs[i].needs_translation

\* C6: no step removes a SeenRecord or changes the first_seen, url, company
\* or title of one.
C6_SeenMonotonic ==
    [][\A jid \in DOMAIN seen_jobs_of(seenFile) :
          /\ jid \in DOMAIN seen_jobs_of(seenFile')
          /\ seen_jobs_of(seenFile')[jid].first_seen = seen_jobs_of(seenFile)[jid].first_seen
          /\ seen_jobs_of(seenFile')[jid].url = seen_jobs_of(seenFile)[jid].url
          /\ seen_jobs_of(seenFile')[jid].company = seen_jobs_of(seenFile)[jid].company
          /\ seen_jobs_of(seenFile')[jid].title = seen_jobs_of(seenFile)[jid].title]_vars

\* a record met again on a later day, by a run that saw the posting under
\* another title
C6_Witness ==
    /\ pc = "idle"
    /\ \E jid \in DOMAIN seen_jobs_of(seenFile) :
          /\ seen_jobs_of(seenFile)[jid].last_seen > seen_jobs_of(seenFile)[jid].first_seen
          /\ Has(logDir, <<clock.day, "json">>)
          /\ \E e \in Range(logDir[<<clock.day, "json">>].jobs) :
                e.job_id = jid /\ e.title # seen_jobs_of(seenFile)[jid].title

\* C7: in the snapshot a run writes, an entry has is_new exactly when its
\* job_id had no SeenRecord in the store the run loaded.
C7_IsNewIffFirstSeen ==
    [][pc = "persist" =>
          /\ Has(logDir', <<clock.day, "json">>)
          /\ \A e \in Range(logDir'[<<clock.day, "json">>].jobs) :
                /\ e.is_new <=> ~Has(seen_jobs_of(seenFile), e.job_id)
                /\ Has(seen_jobs_of(seenFile'), e.job_id)]_vars

C7_Witness ==
    /\ pc = "idle"
    /\ Has(logDir, <<clock.day, "json">>)
    /\ \E e1, e2 \in Range(logDir[<<clock.day, "json">>].jobs) :
          /\ e1.is_new /\ ~e2.is_new
          /\ seen_jobs_of(seenFile)[e2.job_id].first_seen = clock.day

\* C8: every score Rank has computed is at least 0.
C8_ScoreNonNegative ==
    pc \in {"select", "persist"} => \A e \in Range(ranked) : e.score >= 0

\* a job of a skipped company that fires no positive factor
C8_Witness ==
    /\ pc = "select"
    /\ \E e \in Range(ranked) : e.score = 0 /\ e.reasons = <<"SKIP company">>

\* C9: a job of a skipped company that would score 5.0 were the company not
\* skipped is ranked with score 0.0 and with the reason "SKIP company".
C9_SkipScenario ==
    pc = "select" =>
        \A i \in 1..Len(jobs) :
            (/\ jobs[i].company \in Range(prefs.SKIP_COMPANIES)
             /\ score_job(jobs[i], << >>, prefs.PRIORITY_COMPANIES)[1] = 50)
            => \E e \in Range(ranked) :
                   /\ e.job_id = jobs[i].job_id
                   /\ e.score = 0
                   /\ "SKIP company" \in Range(e.reasons)

\* the position in the batch js of the job a ranked entry was made from
SourceIndex(js, e) == CHOOSE a \in 1..Len(js) : js[a].job_id = e.job_id

\* C10: the output of Rank and Select is fixed by their input: the ranked
\* sequence holds every job of the batch once, each entry before all entries
\* of smaller (score, post_date) and, among entries of equal score and
\* post_date, in the order of the batch; the selected sequence is its first
\* top entries.
C10_RankSelectDetermined ==
    /\ pc \in {"select", "persist"} =>
          /\ Len(ranked) = Len(jobs)
          /\ {ranked[i].job_id : i \in 1..Len(ranked)} = {jobs[i].job_id : i \in 1..Len(jobs)}
          /\ \A i \in 1..Len(ranked) :
                LET sr == score_job(jobs[SourceIndex(jobs, ranked[i])],
                                    prefs.SKIP_COMPANIES, prefs.PRIORITY_COMPANIES)
                IN  ranked[i].score = sr[1] /\ ranked[i].reasons = sr[2]
          /\ \A i, k \in 1..Len(ranked) :
                i < k =>
                    \/ ranked[i].score > ranked[k].score
                    \/ /\ ranked[i].score = ranked[k].score
                       /\ ranked[i].post_date > ranked[k].post_date
                    \/ /\ ranked[i].score = ranked[k].score
                       /\ ranked[i].post_date = ranked[k].post_date
                       /\ SourceIndex(jobs, ranked[i]) < SourceIndex(jobs, ranked[k])
    /\ pc = "persist" =>
          /\ Len(final) = Min(args.top, Len(ranked))
          /\ \A i \in 1..Len(final) : final[i] = ranked[i]

C10_Witness ==
    /\ pc = "persist"
    /\ Len(final) >= 1
    /\ Len(final) < Len(ranked)
    /\ \E i, k \in 1..Len(ranked) :
          /\ i < k
          /\ ranked[i].score = ranked[k].score
          /\ ranked[i].post_date = ranked[k].post_date

\* C11: a mark command whose job_id has no record in the status store
\* reports that the job was not found and leaves the store file as it was.
C11_UnknownMarkRejected ==
    [][\A m \in MARKS :
          (CmdMark(m.job_id, m.status, m.note) /\ ~Has(ensure_ats(atsFile), m.job_id))
          => (atsFile' = atsFile /\ out' = "Job ID not found in ATS records")]_vars

\* an unknown job_id marked when the store holds records of other jobs
C11_Witness ==
    /\ out = "Job ID not found in ATS records"
    /\ atsFile # None
    /\ DOMAIN ensure_ats(atsFile) # {}
    /\ ~Has(ensure_ats(atsFile), UNKNOWN_ID)

\* a description that shows the posting is Norwegian: a token guess_lang
\* reads as Norwegian, or the language named as a requirement
NorwegianMarker(text) == guess_lang(text) = "no" \/ SubstringSearch("Norwegian", text)

\* C12: a job whose description has a Norwegian marker and no English marker
\* leaves Enrich with english_ok false and translation_confidence 0.6.
C12_NorwegianScenario ==
    pc = "rank" =>
        \A i \in 1..Len(jobs) :
            (/\ NorwegianMarker(jobs[i].description_raw)
             /\ ~SubstringSearch("English", jobs[i].description_raw))
            => /\ jobs[i].signals.english_ok = "False"
               /\ jobs[i].source_meta.translation_confidence = Some(6)

DayFiles(dir, day) == {f \in DOMAIN dir : f[1] = day}

JobIds(entries) == [i \in 1..Len(entries) |-> entries[i].job_id]

\* C13: a run leaves for its day exactly one JSON snapshot and one CSV
\* export, both holding the selection and the logs of that run and nothing
\* of an earlier run of the day, and every job_id of the seen store stays.
C13_SameDayReplace ==
    [][pc = "persist" =>
          /\ DayFiles(logDir', clock.day) = {<<clock.day, "json">>, <<clock.day, "csv">>}
          /\ JobIds(logDir'[<<clock.day, "json">>].jobs) = JobIds(final)
          /\ \A i \in 1..Len(final) :
                \A c \in CSV_COLS :
                    /\ logDir'[<<clock.day, "json">>].jobs[i][c] = final[i][c]
                    /\ logDir'[<<clock.day, "csv">>][i][c] = final[i][c]
          /\ Len(logDir'[<<clock.day, "csv">>]) = Len(final)
          /\ logDir'[<<clock.day, "json">>].logs = logs
          /\ logDir'[<<clock.day, "json">>].stats.final = Len(final)
          /\ logDir'[<<clock.day, "json">>].run_id = clock.day
          /\ DOMAIN seen_jobs_of(seenFile) \subseteq DOMAIN seen_jobs_of(seenFile')]_vars

\* a run about to write over the snapshot of an earlier run of the same day
\* that selected a job this run did not select
C13_Witness ==
    /\ pc = "persist"
    /\ final # << >>
    /\ Has(logDir, <<clock.day, "json">>)
    /\ Has(logDir, <<clock.day, "csv">>)
    /\ \E e \in Range(logDir[<<clock.day, "json">>].jobs) :
          \A i \in 1..Len(final) : final[i].job_id # e.job_id
    /\ \E i \in 1..Len(ranked) : ~Has(seen_jobs_of(seenFile), ranked[i].job_id)

\* C14: of two adjacent ranked entries the first has the greater score, or
\* the same score and a post_date that is not earlier.
C14_RankedOrder ==
    pc \in {"select", "persist"} =>
        \A i \in 1..(Len(ranked) - 1) :
            \/ ranked[i].score > ranked[i + 1].score
            \/ /\ ranked[i].score = ranked[i + 1].score
               /\ ranked[i].post_date >= ranked[i + 1].post_date

\* a ranking where a later job of the batch went before an earlier one of
\* the same score because its post_date is more recent
C14_Witness ==
    /\ pc = "select"
    /\ \E i \in 1..(Len(ranked) - 1) :
          /\ ranked[i].score = ranked[i + 1].score
          /\ ranked[i].post_date > ranked[i + 1].post_date
          /\ SourceIndex(jobs, ranked[i]) > SourceIndex(jobs, ranked[i + 1])
    /\ \E i \in 1..(Len(ranked) - 1) : ranked[i].score > ranked[i + 1].score

\* C15: a job that Translate and Enrich have processed has the same signals
\* after their loops have processed it once more.
C15_SignalsIdempotent ==
    pc = "rank" =>
        \A i \in 1..Len(jobs) : enrich_job(translate_job(jobs[i])).signals = jobs[i].signals

\* C16: the persist step of a run keeps every StatusRecord as it is and
\* gives every selected job without one a record in status "discovered" with
\* the single history entry of its creation; a step that changes or removes
\* an existing StatusRecord is a mark command that found its job_id.
C16_RunsOnlyCreate ==
    [][/\ pc = "persist" =>
             /\ \A jid \in DOMAIN ensure_ats(atsFile) :
                   /\ Has(ensure_ats(atsFile'), jid)
                   /\ ensure_ats(atsFile')[jid] = ensure_ats(atsFile)[jid]
             /\ DOMAIN ensure_ats(atsFile')
                    = DOMAIN ensure_ats(atsFile) \cup Range(JobIds(final))
             /\ \A i \in 1..Len(final) :
                   ~Has(ensure_ats(atsFile), final[i].job_id) =>
                       LET rec == ensure_ats(atsFile')[final[i].job_id]
                       IN  /\ rec.status = "discovered"
                           /\ rec.notes = << >>
                           /\ rec.history = <<[date |-> clock, action |-> "create",
                                               status |-> "discovered"]>>
                           /\ rec.title = final[i].title /\ rec.url = final[i].url
       /\ (\E jid \in DOMAIN ensure_ats(atsFile) :
              \/ ~Has(ensure_ats(atsFile'), jid)
              \/ ensure_ats(atsFile')[jid] # ensure_ats(atsFile)[jid])
          => (pc = "idle" /\ pc' = "idle" /\ out' = "Updated")]_vars

\* a job marked "applied" and selected again by a run of a later day
C16_Witness ==
    /\ pc = "idle"
    /\ out = "run done"
    /\ Has(logDir, <<clock.day, "json">>)
    /\ \E e \in Range(logDir[<<clock.day, "json">>].jobs) :
          /\ Has(ensure_ats(atsFile), e.job_id)
          /\ ensure_ats(atsFile)[e.job_id].status = "applied"
          /\ Len(ensure_ats(atsFile)[e.job_id].history) = 2
          /\ ensure_ats(atsFile)[e.job_id].history[2].date.day < clock.day
    /\ \E e \in Range(logDir[<<clock.day, "json">>].jobs) :
          ensure_ats(atsFile)[e.job_id].history[1].date.day = clock.day

\* C17: a mark command on a job_id that has a StatusRecord succeeds whatever
\* the record's status and the target status, sets the status to the target,
\* and puts behind the unchanged history one entry with the time, the status
\* before and the target; the other records stay as they are.
C17_MarkAppendsHistory ==
    [][\A m \in MARKS :
          (CmdMark(m.job_id, m.status, m.note) /\ Has(ensure_ats(atsFile), m.job_id))
          => LET old == ensure_ats(atsFile)[m.job_id]
                 new == ensure_ats(atsFile')[m.job_id]
             IN  /\ out' = "Updated"
                 /\ new.status = m.status
                 /\ Len(new.history) = Len(old.history) + 1
                 /\ SubSeq(new.history, 1, Len(old.history)) = old.history
                 /\ new.history[Len(new.history)]
                       = [date |-> clock, action |-> "status_change",
                          from |-> old.status, to |-> m.status]
                 /\ DOMAIN ensure_ats(atsFile') = DOMAIN ensure_ats(atsFile)
                 /\ \A jid \in DOMAIN ensure_ats(atsFile) \ {m.job_id} :
                       ensure_ats(atsFile')[jid] = ensure_ats(atsFile)[jid]]_vars

\* a record moved out of "offer" and then marked with the status it has
C17_Witness ==
    \E jid \in DOMAIN ensure_ats(atsFile) :
        LET h == ensure_ats(atsFile)[jid].history
        IN  /\ Len(h) = 3
            /\ h[1].action = "create"
            /\ h[2].from = "discovered" /\ h[2].to = "offer"
            /\ h[3].from = "offer" /\ h[3].to = "offer"
            /\ ensure_ats(atsFile)[jid].status = "offer"

IsPrefix(a, b) == Len(a) <= Len(b) /\ SubSeq(b, 1, Len(a)) = a

\* C18: a mark command with a note leaves the old notes as a prefix of the
\* new notes, followed by a newline when they were not empty and then by the
\* note; a mark command without a note leaves the notes as they are.
C18_NotesAppendOnly ==
    [][\A m \in MARKS :
          (CmdMark(m.job_id, m.status, m.note) /\ Has(ensure_ats(atsFile), m.job_id))
          => LET old == ensure_ats(atsFile)[m.job_id].notes
                 new == ensure_ats(atsFile')[m.job_id].notes
             IN  IF m.note = "" THEN new = old
                 ELSE /\ IsPrefix(old, new)
                      /\ new[Len(new)] = m.note
                      /\ Len(new) = Len(old) + (IF old = << >> THEN 1 ELSE 2)
                      /\ old # << >> => new[Len(old) + 1] = NEWLINE]_vars

\* two notes, the second on a new line
C18_Witness ==
    \E jid \in DOMAIN ensure_ats(atsFile) :
        /\ ensure_ats(atsFile)[jid].notes = <<"called them", NEWLINE, "called them">>
        /\ Len(ensure_ats(atsFile)[jid].history) = 3

\* C19: after the persist step of a run every ranked job has a SeenRecord,
\* selected or not, and a selected job that had a SeenRecord before the step
\* is written with is_new false, also when it has never been selected.
C19_SeenFromFullRanking ==
    [][pc = "persist" =>
          /\ \A i \in 1..Len(ranked) :
                /\ Has(seen_jobs_of(seenFile'), ranked[i].job_id)
                /\ seen_jobs_of(seenFile')[ranked[i].job_id].last_seen = clock.day
          /\ \A e \in Range(logDir'[<<clock.day, "json">>].jobs) :
                Has(seen_jobs_of(seenFile), e.job_id) => ~e.is_new]_vars

\* a run that selects a job an earlier run has ranked and never selected:
\* the job has a SeenRecord and no StatusRecord
C19_Witness ==
    /\ pc = "persist"
    /\ \E i \in 1..Len(final) :
          /\ Has(seen_jobs_of(seenFile), final[i].job_id)
          /\ ~Has(ensure_ats(atsFile), final[i].job_id)
    /\ Len(final) < Len(ranked)

\* the adapters stage_fetch assembles under a configuration, in their order
EnabledAdapters(c) ==
    (IF c.GREENHOUSE_BOARDS # << >> THEN <<"greenhouse">> ELSE << >>)
        \o (IF c.LEVER_COMPANIES # << >> THEN <<"lever">> ELSE << >>)
        \o <<"finn", "linkedin">>

\* the sources of the postings an adapter returns: FINN falls back on the stub
SourcesOf(name) == IF name = "finn" THEN {"finn", "linkedin"} ELSE {name}

Returned(line) == "size" \in DOMAIN line

SizeOf(line) == IF Returned(line) THEN line.size ELSE 0

RECURSIVE SizesBefore(_, _)
\* the number of postings the first i - 1 adapters have returned
SizesBefore(lines, i) ==
    IF i <= 1 THEN 0 ELSE SizesBefore(lines, i - 1) + SizeOf(lines[i - 1])

\* C20: after Fetch the log holds one line for every enabled adapter, in
\* adapter order, whether it returned or raised, and the batch is made of
\* the chunks of the adapters that returned, one after the other in adapter
\* order: the run goes on to Normalize whatever raised.
C20_FetchIsolatesFailures ==
    pc = "normalize" =>
        LET names == EnabledAdapters(cfg)
            n     == Len(names)
            total == logs[n + 1]
        IN  /\ Len(logs) = n + 1
            /\ \A i \in 1..n : logs[i].stage = "FetchLatency"
            /\ total.stage = "Fetch"
            /\ total.sources_total = n
            /\ total.sources_ok = Cardinality({i \in 1..n : Returned(logs[i])})
            /\ total.count = Len(raws)
            /\ Len(raws) = SizesBefore(logs, n + 1)
            /\ \A i \in 1..n :
                  \A k \in 1..SizeOf(logs[i]) :
                      raws[SizesBefore(logs, i) + k].source \in SourcesOf(names[i])
            /\ Returned(logs[n]) =>
                  SubSeq(raws, Len(raws) - 1, Len(raws))
                      = fetch_linkedin_stub(clock.day, <<120, 300>>)

\* an adapter raised, and adapters before and after it returned postings
C20_Witness ==
    /\ pc = "normalize"
    /\ \E i, k, l \in 1..(Len(logs) - 1) :
          /\ i < k /\ k < l
          /\ Returned(logs[i]) /\ logs[i].size > 0
          /\ ~Returned(logs[k])
          /\ Returned(logs[l]) /\ logs[l].size > 0
    /\ Len(raws) >= 2

\* the transport calls an adapter makes
CallsOf(name) ==
    {k \in 1..Len(transport_calls(cfg)) :
        transport_calls(cfg)[k] = (CASE name = "greenhouse" -> "gh"
                                     [] name = "lever" -> "lever"
                                     [] name = "finn" -> "finn"
                                     [] OTHER -> "none")}

\* the adapter made transport calls and each of them ended in the RuntimeError
TransportFailed(name) ==
    /\ CallsOf(name) # {}
    /\ \A k \in CallsOf(name) : http.done[k] = HttpFail

\* C21: after Fetch, an adapter whose transport call failed on every retry
\* has an error line in the log and no posting in the batch, and sources_ok
\* is the number of adapters whose transport did not fail.
C21_FailedTransportRecorded ==
    pc = "normalize" =>
        LET names == EnabledAdapters(cfg)
            n     == Len(names)
        IN  /\ \A i \in 1..n :
                  TransportFailed(names[i]) => ~Returned(logs[i]) /\ SizeOf(logs[i]) = 0
            /\ logs[n + 1].sources_ok
                  = Cardinality({i \in 1..n : ~TransportFailed(names[i])})

\* the trace of the latest http_get call: at most HTTP_RETRIES attempts, none
\* after an answer with a body, a sleep of HTTP_BACKOFF * 2^i after the
\* failed attempt i and no other, the body returned at the first answer
\* that has one and the failure raised after the last failed attempt
HttpGetTrace ==
    LET a == http.answers
        n == Len(a)
    IN  /\ n <= HTTP_RETRIES
        /\ \A k \in 1..(n - 1) : a[k] \in BAD_ANSWERS
        /\ Len(http.slept) = Cardinality({k \in 1..n : a[k] \in BAD_ANSWERS})
        /\ \A k \in 1..Len(http.slept) : http.slept[k] = HTTP_BACKOFF * Pow2(k - 1)
        /\ \A k \in 1..(Len(http.slept) - 1) : http.slept[k + 1] = 2 * http.slept[k]
        /\ http.running <=> (n > 0 /\ n < HTTP_RETRIES /\ a[n] \in BAD_ANSWERS)
        /\ (~http.running /\ n > 0) =>
              LET result == http.done[Len(http.done)]
              IN  IF a[n] = "200" THEN result.ok
                  ELSE n = HTTP_RETRIES /\ result = HttpFail

\* stage_fetch makes each transport call once: one call for each board, each
\* company and FINN, and one log line for each adapter
OneCallEach ==
    /\ Len(http.done) <= Len(transport_calls(cfg))
    /\ pc \notin {"idle", "fetch"} /\ logs[1].stage # "Guard" =>
          /\ Len(http.done) = Len(transport_calls(cfg))
          /\ Cardinality({k \in 1..Len(logs) : logs[k].stage = "FetchLatency"})
                = Len(EnabledAdapters(cfg))

\* C22: every http_get call ends, by returning at the first attempt answered
\* 200 with a body or by raising after the third failed attempt, having
\* slept 0.8, 1.6, 3.2 s after the failed attempts; stage_fetch repeats no
\* call, so that the run gets from Fetch to Normalize.
C22_HttpGetBounded ==
    /\ [](HttpGetTrace /\ OneCallEach)
    /\ (pc = "fetch" ~> pc = "normalize")

\* the Greenhouse call raised and the FINN call returned at its third attempt
C22_Witness ==
    /\ pc = "normalize"
    /\ Len(http.done) = 3
    /\ http.done[1] = HttpFail
    /\ http.answers = <<"status", "empty", "200">>
    /\ http.slept = <<8, 16>>
    /\ http.done[3].ok

\* C23: after Fetch, each of the FINN, Greenhouse and Lever adapters has
\* returned a non-empty chunk, whether its transport call failed, answered
\* with no posting or answered with postings, and the batch handed to
\* Normalize is not empty.
C23_NeverEmptyChunk ==
    pc = "normalize" =>
        LET names == EnabledAdapters(cfg)
        IN  /\ \A i \in 1..Len(names) :
                  names[i] \in {"finn", "greenhouse", "lever"} =>
                      Returned(logs[i]) /\ logs[i].size > 0
            /\ raws # << >>

\* C24: a run that the quiet-hours guard has stopped ends with an empty
\* result set and persists nothing: the seen records, the status records
\* and the snapshot and CSV the directory holds for the day stay as they are.
C24_QuietRunNoOp ==
    [][(pc = "persist" /\ logs = <<[stage |-> "Guard"]>>) =>
          /\ final = << >>
          /\ seen_jobs_of(seenFile') = seen_jobs_of(seenFile)
          /\ ensure_ats(atsFile') = ensure_ats(atsFile)
          /\ \A f \in DayFiles(logDir, clock.day) :
                f \in DOMAIN logDir' /\ logDir'[f] = logDir[f]]_vars

\* C25: after Normalize no job has a negative age_days, also when its
\* post_date lies after the run time, and a job whose post_date does not
\* parse as an ISO date has age_days 0 and the current date as post_date.
C25_AgeNeverNegative ==
    pc = "dedup" =>
        \A i \in 1..Len(raws) :
            /\ jobs[i].age_days >= 0
            /\ ~raws[i].post_date.iso =>
                  jobs[i].age_days = 0 /\ jobs[i].post_date = clock.day

\* C26: whenever the process stops while write_json writes the seen store or
\* the status store, the file holds the whole previous or the whole new
\* document: neither file is ever left as a partial document, which the
\* next read_json would take for an empty store.
C26_StoreWritesAtomic ==
    /\ seenFile # Partial
    /\ atsFile # Partial

\* C27: persist_outputs removes from the log directory every artifact dated
\* more than 7 days before today and keeps, as it is, every artifact of an
\* earlier day dated 7 days before today or less; the day's own artifacts
\* are there afterwards.
C27_PruneKeepsSevenDays ==
    [][pc = "persist" =>
          /\ \A f \in DOMAIN logDir :
                IF clock.day - f[1] > 7 THEN f \notin DOMAIN logDir'
                ELSE /\ f \in DOMAIN logDir'
                     /\ f[1] # clock.day => logDir'[f] = logDir[f]
          /\ DayFiles(logDir', clock.day) = {<<clock.day, "json">>, <<clock.day, "csv">>}]_vars

STAGE_NAMES == <<"Fetch", "Normalize", "Dedup", "Translate", "Enrich", "Rank", "Select">>

\* the stages that have logged their end, in the order they did
StagesLogged ==
    SelectSeq([k \in 1..Len(logs) |-> logs[k].stage],
              LAMBDA s : s \notin {"FetchLatency", "Rollup"})

\* the number of stages a run at this position has behind it
StagesDone ==
    CASE pc = "fetch" -> 0
      [] pc = "normalize" -> 1
      [] pc = "dedup" -> 2
      [] pc = "translate" -> 3
      [] pc = "enrich" -> 4
      [] pc = "rank" -> 5
      [] pc = "select" -> 6
      [] OTHER -> 7

\* C28: while a run is under way, either the guard has fired (the hour is at
\* or past the threshold) and the run stands before Persist with the guard
\* line as its only log line, nothing fetched and no adapter called, or the
\* stages that have ended are exactly the first ones of Fetch, Normalize,
\* Dedup, Translate, Enrich, Rank, Select, each once and in this order, each
\* on the whole output of the one before, and nothing is persisted before
\* the run has passed Select.
C28_StagesInOrder ==
    /\ pc = "idle" => logs = << >>
    /\ (pc # "idle" \/ out # "run done") =>
          seenFile = None /\ atsFile = None /\ logDir = EmptyMap
    /\ pc # "idle" =>
          IF clock.hour >= QUIET_AFTER_HOUR
          THEN /\ pc = "persist"
               /\ logs = <<[stage |-> "Guard"]>>
               /\ raws = << >> /\ jobs = << >> /\ ranked = << >> /\ final = << >>
               /\ http = HttpIdle
          ELSE /\ StagesLogged = SubSeq(STAGE_NAMES, 1, StagesDone)
               /\ StagesDone < 1 => raws = << >>
               /\ StagesDone < 2 => jobs = << >>
               /\ StagesDone < 6 => ranked = << >>
               /\ StagesDone < 7 => final = << >>
               /\ \A k \in 1..Len(logs) :
                     /\ logs[k].stage = "Fetch" => logs[k].count = Len(raws)
                     /\ logs[k].stage = "Normalize" => logs[k].in = Len(raws)
                     /\ logs[k].stage = "Dedup" => logs[k].before = Len(raws)
                     /\ logs[k].stage = "Rank" => logs[k].ranked = Len(jobs)
                     /\ logs[k].stage = "Select" =>
                           logs[k].final_count = Min(args.top, Len(ranked))

\* a run in the morning has gone through all seven stages and stands before
\* Persist with postings selected
C28_Witness ==
    /\ pc = "persist"
    /\ clock.hour < QUIET_AFTER_HOUR
    /\ StagesLogged = STAGE_NAMES
    /\ final # << >>

\* C29: in every state reached by runs and mark commands from empty stores,
\* every job_id that has a status record has a seen record.
C29_StatusSubsetOfSeen ==
    DOMAIN ensure_ats(atsFile) \subseteq DOMAIN seen_jobs_of(seenFile)

\* after runs and a mark that found its record, some jobs have a status
\* record and more jobs than these have a seen record
C29_Witness ==
    /\ out = "Updated"
    /\ DOMAIN ensure_ats(atsFile) # {}
    /\ DOMAIN ensure_ats(atsFile) # DOMAIN seen_jobs_of(seenFile)
    /\ Cardinality(DOMAIN ensure_ats(atsFile)) >= 2

\* the status a history entry leaves the record in
Established(entry) == IF entry.action = "create" THEN entry.status ELSE entry.to

\* C30: in every state reached by runs and mark commands, the history of
\* every status record starts with its one "create" entry, every later
\* entry is a status_change whose from is the status the entry before it
\* established, and the record's status is the one its last entry
\* established.
C30_RecordsSelfConsistent ==
    \A jid \in DOMAIN ensure_ats(atsFile) :
        LET rec == ensure_ats(atsFile)[jid]
            h   == rec.history
        IN  /\ Len(h) >= 1
            /\ h[1].action = "create"
            /\ \A k \in 2..Len(h) :
                  /\ h[k].action = "status_change"
                  /\ h[k].from = Established(h[k - 1])
            /\ rec.status = Established(h[Len(h)])

\* a record marked twice, to two different statuses
C30_Witness ==
    \E jid \in DOMAIN ensure_ats(atsFile) :
        LET rec == ensure_ats(atsFile)[jid]
        IN  /\ Len(rec.history) = 3
            /\ rec.history[2].to = "applied"
            /\ rec.history[3].from = "applied"
            /\ rec.history[3].to = "offer"
            /\ rec.status = "offer"

=============================================================================
